---- MODULE Spec2Model ----
(***************************************************************************)
(* A model of rclone's read-only "doi" backend (backend/doi): DOI          *)
(* resolution, provider detection, endpoint resolution for Zenodo,         *)
(* Dataverse and InvenioRDM, the cached file listers and the Fs/Object     *)
(* operations built on them.                                               *)
(*                                                                         *)
(* Go strings are TLA+ strings; TLC evaluates Len, \o and SubSeq on them,  *)
(* so every string function of the code is computed character by          *)
(* character as the library computes it.  A value that a function uses    *)
(* more than once is handed to a second operator as a parameter, so a Go   *)
(* function is often two or three operators here, the first one named as   *)
(* the function.                                                           *)
(***************************************************************************)
EXTENDS Integers, Sequences, FiniteSets, TLC

(***************************************************************************)
(* package strings                                                         *)
(***************************************************************************)
\* the least element of a set of positions, 0 for the empty set
First(positions) ==
    IF positions = {} THEN 0 ELSE CHOOSE i \in positions : \A j \in positions : i <= j

\* the greatest element of a set of positions, 0 for the empty set
Last(positions) ==
    IF positions = {} THEN 0 ELSE CHOOSE i \in positions : \A j \in positions : i >= j

\* strings.HasPrefix
HasPrefix(s, prefix) ==
    /\ Len(prefix) <= Len(s)
    /\ SubSeq(s, 1, Len(prefix)) = prefix

\* strings.HasSuffix
HasSuffix(s, suffix) ==
    /\ Len(suffix) <= Len(s)
    /\ SubSeq(s, Len(s) - Len(suffix) + 1, Len(s)) = suffix

\* strings.Index, 1-based; 0 when substr does not occur in s
Index(s, substr) ==
    First({i \in 1..(Len(s) - Len(substr) + 1) : SubSeq(s, i, i + Len(substr) - 1) = substr})

\* strings.LastIndex, 1-based; 0 when substr does not occur in s
LastIndex(s, substr) ==
    Last({i \in 1..(Len(s) - Len(substr) + 1) : SubSeq(s, i, i + Len(substr) - 1) = substr})

\* strings.ContainsRune for a one-character string c
ContainsRune(s, c) == \E i \in 1..Len(s) : SubSeq(s, i, i) = c

\* strings.Contains
Contains(s, substr) ==
    \E i \in 1..(Len(s) - Len(substr) + 1) : SubSeq(s, i, i + Len(substr) - 1) = substr

\* strings.TrimPrefix
TrimPrefix(s, prefix) ==
    IF HasPrefix(s, prefix) THEN SubSeq(s, Len(prefix) + 1, Len(s)) ELSE s

\* s[i:] for a position i of s, "" for i = 0
FromPosition(s, i) == IF i = 0 THEN "" ELSE SubSeq(s, i, Len(s))

\* strings.TrimLeft: cutset is a SET of characters, and every leading
\* character that occurs in it is removed
TrimLeft(s, cutset) ==
    FromPosition(s, First({i \in 1..Len(s) : ~ContainsRune(cutset, SubSeq(s, i, i))}))

\* strings.TrimRight
TrimRight(s, cutset) ==
    SubSeq(s, 1, Last({i \in 1..Len(s) : ~ContainsRune(cutset, SubSeq(s, i, i))}))

\* strings.Trim
Trim(s, cutset) == TrimRight(TrimLeft(s, cutset), cutset)

UpperCase == "ABCDEFGHIJKLMNOPQRSTUVWXYZ"
LowerCase == "abcdefghijklmnopqrstuvwxyz"
Digits == "0123456789"

\* the characters of a string, as a set
Runes(s) == {SubSeq(s, i, i) : i \in 1..Len(s)}

UpperRunes == Runes(UpperCase)
DigitRunes == Runes(Digits)

\* unicode.ToLower of the character c
lowerRune(c) ==
    IF c \in UpperRunes THEN SubSeq(LowerCase, Index(UpperCase, c), Index(UpperCase, c)) ELSE c

RECURSIVE ToLower(_)
\* strings.ToLower (ASCII)
ToLower(s) ==
    IF s = "" THEN "" ELSE lowerRune(SubSeq(s, 1, 1)) \o ToLower(SubSeq(s, 2, Len(s)))

(***************************************************************************)
(* package net/url.  A URL is the record of the fields of url.URL that the *)
(* backend reads; ok is FALSE for the (nil, err) result of url.Parse.      *)
(* Fragments, user information and percent-escapes inside paths do not     *)
(* occur in the URLs of this model.                                        *)
(***************************************************************************)
NoURL == [ok |-> FALSE, Scheme |-> "", Opaque |-> "", Host |-> "", Path |-> "", RawQuery |-> ""]

EmptyURL == [ok |-> TRUE, Scheme |-> "", Opaque |-> "", Host |-> "", Path |-> "", RawQuery |-> ""]

\* the letters, and the other characters of a scheme
Letters == Runes(LowerCase \o UpperCase)
SchemeRunes == Runes(Digits \o "+-.")

RECURSIVE getSchemeAt(_, _)
\* the loop of url.getScheme at position i of rawURL: [ok, scheme, rest]
getSchemeAt(rawURL, i) ==
    IF i > Len(rawURL) THEN [ok |-> TRUE, scheme |-> "", rest |-> rawURL]
    ELSE IF SubSeq(rawURL, i, i) \in Letters THEN getSchemeAt(rawURL, i + 1)
    ELSE IF SubSeq(rawURL, i, i) \in SchemeRunes
    THEN IF i = 1 THEN [ok |-> TRUE, scheme |-> "", rest |-> rawURL]
         ELSE getSchemeAt(rawURL, i + 1)
    ELSE IF SubSeq(rawURL, i, i) = ":"
    THEN IF i = 1 THEN [ok |-> FALSE, scheme |-> "", rest |-> ""]
         ELSE [ok |-> TRUE, scheme |-> SubSeq(rawURL, 1, i - 1),
               rest |-> SubSeq(rawURL, i + 1, Len(rawURL))]
    ELSE [ok |-> TRUE, scheme |-> "", rest |-> rawURL]

\* url.getScheme
getScheme(rawURL) == getSchemeAt(rawURL, 1)

\* url.parse from the authority on; slash is the position of the first '/'
\* of authority
parseAuthority(scheme, authority, slash, rawQuery) ==
    [EmptyURL EXCEPT !.Scheme = scheme,
                     !.Host = IF slash = 0 THEN authority ELSE SubSeq(authority, 1, slash - 1),
                     !.Path = FromPosition(authority, slash),
                     !.RawQuery = rawQuery]

\* url.parse after the scheme and the query are cut off; slash is the
\* position of the first '/' of rest
parseRest(scheme, rest, slash, rawQuery) ==
    IF ~HasPrefix(rest, "/") /\ scheme # ""
    THEN [EmptyURL EXCEPT !.Scheme = scheme, !.Opaque = rest, !.RawQuery = rawQuery]
    ELSE IF /\ ~HasPrefix(rest, "/")
            /\ ContainsRune(IF slash = 0 THEN rest ELSE SubSeq(rest, 1, slash - 1), ":")
    THEN NoURL
    ELSE IF HasPrefix(rest, "//") /\ (scheme # "" \/ ~HasPrefix(rest, "///"))
    THEN parseAuthority(scheme, SubSeq(rest, 3, Len(rest)),
                        Index(SubSeq(rest, 3, Len(rest)), "/"), rawQuery)
    ELSE [EmptyURL EXCEPT !.Scheme = scheme, !.Path = rest, !.RawQuery = rawQuery]

\* url.parse after getScheme; q is the position of the first '?' of rest
parseQuery(scheme, rest, q) ==
    IF q = 0 THEN parseRest(scheme, rest, Index(rest, "/"), "")
    ELSE parseRest(scheme, SubSeq(rest, 1, q - 1), Index(SubSeq(rest, 1, q - 1), "/"),
                   SubSeq(rest, q + 1, Len(rest)))

\* url.parse, sch the result of getScheme
parseScheme(sch) ==
    IF ~sch.ok THEN NoURL ELSE parseQuery(ToLower(sch.scheme), sch.rest, Index(sch.rest, "?"))

\* url.Parse
Parse(rawURL) == parseScheme(getScheme(rawURL))

\* (*URL).Hostname, colon the position of the last ':' of u.Host: the host
\* without its port
hostnameAt(u, colon) == IF colon = 0 THEN u.Host ELSE SubSeq(u.Host, 1, colon - 1)

\* (*URL).Hostname
Hostname(u) == hostnameAt(u, LastIndex(u.Host, ":"))

\* (*URL).EscapedPath (no character of the model's paths is escaped)
EscapedPath(u) == u.Path

\* (*URL).String
String(u) ==
    (IF u.Scheme # "" THEN u.Scheme \o ":" ELSE "")
    \o (IF u.Opaque # "" THEN u.Opaque
        ELSE (IF (u.Scheme # "" \/ u.Host # "") /\ (u.Host # "" \/ u.Path # "")
              THEN "//" \o u.Host ELSE "")
             \o (IF u.Path # "" /\ ~HasPrefix(u.Path, "/") /\ u.Host # "" THEN "/" ELSE "")
             \o EscapedPath(u))
    \o (IF u.RawQuery # "" THEN "?" \o u.RawQuery ELSE "")

\* (*URL).ResolveReference(&url.URL{Path: path, RawQuery: rawQuery}) for the
\* absolute paths the backend passes
ResolveReference(u, path, rawQuery) ==
    [ok |-> TRUE, Scheme |-> u.Scheme, Opaque |-> "", Host |-> u.Host,
     Path |-> path, RawQuery |-> rawQuery]

\* (*URL).JoinPath(elem)
JoinPath(u, elem) ==
    [u EXCEPT !.Path = (IF HasSuffix(u.Path, "/") THEN u.Path ELSE u.Path \o "/") \o elem]

\* the characters url.QueryEscape leaves alone
Unreserved == Runes(LowerCase \o UpperCase \o Digits \o "-_.~")

\* the characters url.QueryEscape percent-encodes, of those that occur in
\* the model, and their codes, three characters each
PercentCoded == ":/%&=?+"
PercentCodes == "%3A%2F%25%26%3D%3F%2B"

\* the percent code of the character at position k of PercentCoded
percentCode(k) == SubSeq(PercentCodes, 3 * k - 2, 3 * k)

\* url.QueryEscape of the character c
escapeRune(c) ==
    IF c \in Unreserved THEN c
    ELSE IF c = " " THEN "+"
    ELSE percentCode(Index(PercentCoded, c))

RECURSIVE QueryEscape(_)
\* url.QueryEscape
QueryEscape(s) ==
    IF s = "" THEN "" ELSE escapeRune(SubSeq(s, 1, 1)) \o QueryEscape(SubSeq(s, 2, Len(s)))

\* c in front of an unescaped rest
unescaped(c, rest) == [ok |-> rest.ok, s |-> c \o rest.s]

\* the character of the percent code at position k of PercentCodes, in
\* front of an unescaped rest; no character for a code not in PercentCodes
unescapedCode(k, rest) ==
    IF k = 0 \/ k % 3 # 1 THEN [ok |-> FALSE, s |-> ""]
    ELSE unescaped(SubSeq(PercentCoded, (k + 2) \div 3, (k + 2) \div 3), rest)

RECURSIVE QueryUnescape(_)
\* url.QueryUnescape: [ok, s]
QueryUnescape(s) ==
    IF s = "" THEN [ok |-> TRUE, s |-> ""]
    ELSE IF SubSeq(s, 1, 1) = "%"
    THEN IF Len(s) < 3 THEN [ok |-> FALSE, s |-> ""]
         ELSE unescapedCode(Index(PercentCodes, SubSeq(s, 1, 3)),
                            QueryUnescape(SubSeq(s, 4, Len(s))))
    ELSE unescaped(IF SubSeq(s, 1, 1) = "+" THEN " " ELSE SubSeq(s, 1, 1),
                   QueryUnescape(SubSeq(s, 2, Len(s))))

\* one "key=value" of a query, eq the position of its first '=': [ok, key,
\* value], ok when both unescape
queryPair(k, v) == [ok |-> k.ok /\ v.ok, key |-> k.s, value |-> v.s]

parsePair(pair, eq) ==
    IF eq = 0 THEN queryPair(QueryUnescape(pair), [ok |-> TRUE, s |-> ""])
    ELSE queryPair(QueryUnescape(SubSeq(pair, 1, eq - 1)),
                   QueryUnescape(SubSeq(pair, eq + 1, Len(pair))))

RECURSIVE QueryGet(_, _)
\* the value of the first pair of the query whose key is key; url.ParseQuery
\* drops a pair that does not unescape
firstValue(parsed, tail, key) ==
    IF parsed.ok /\ parsed.key = key THEN parsed.value ELSE QueryGet(tail, key)

\* the query cut at amp, the position of its first '&'
queryGetAt(rawQuery, key, amp) ==
    IF amp = 0 THEN firstValue(parsePair(rawQuery, Index(rawQuery, "=")), "", key)
    ELSE IF amp = 1 THEN QueryGet(SubSeq(rawQuery, 2, Len(rawQuery)), key)
    ELSE firstValue(parsePair(SubSeq(rawQuery, 1, amp - 1),
                              Index(SubSeq(rawQuery, 1, amp - 1), "=")),
                    SubSeq(rawQuery, amp + 1, Len(rawQuery)), key)

\* (*URL).Query().Get(key) for the URL's RawQuery
QueryGet(rawQuery, key) ==
    IF rawQuery = "" THEN "" ELSE queryGetAt(rawQuery, key, Index(rawQuery, "&"))

\* url.Values{key: {value}}.Encode()
QueryEncode(key, value) == QueryEscape(key) \o "=" \o QueryEscape(value)

(***************************************************************************)
(* package path, dircache.SplitPath and package time                       *)
(***************************************************************************)
RECURSIVE Clean(_)
\* p without the slash at position i, the first of a pair
cleanAt(p, i) == Clean(SubSeq(p, 1, i) \o SubSeq(p, i + 2, Len(p)))

\* path.Clean for paths without "." and ".." elements: repeated slashes
\* collapse and a trailing slash goes
Clean(p) ==
    IF p = "" THEN "."
    ELSE IF Contains(p, "//") THEN cleanAt(p, Index(p, "//"))
    ELSE IF Len(p) > 1 /\ HasSuffix(p, "/") THEN SubSeq(p, 1, Len(p) - 1)
    ELSE p

\* path.Join(a, b): empty elements are ignored, the result is cleaned, and
\* the join of nothing but empty elements is ""
Join(a, b) ==
    IF a = "" /\ b = "" THEN ""
    ELSE Clean(IF a = "" THEN b ELSE IF b = "" THEN a ELSE a \o "/" \o b)

\* path.Dir
Dir(p) == Clean(SubSeq(p, 1, LastIndex(p, "/")))

\* the part of p before position slash, "" for slash = 0
beforeSlash(p, slash) == IF slash = 0 THEN "" ELSE SubSeq(p, 1, slash - 1)

\* dircache.SplitPath(p), its first result: the directory part, everything
\* before the last slash, "" when there is none
SplitPath(p) == beforeSlash(p, LastIndex(p, "/"))

\* timeUnset = time.Unix(0, 0); a time.Time is written as its RFC3339 text
timeUnset == "1970-01-01T00:00:00Z"

\* time.Time{}
zeroTime == "0001-01-01T00:00:00Z"

\* the layout of a UTC timestamp, d a digit
RFC3339 == "dddd-dd-ddTdd:dd:ddZ"

\* time.Parse(time.RFC3339, s) for UTC timestamps: [ok, t]
ParseRFC3339(s) ==
    IF /\ Len(s) = Len(RFC3339)
       /\ \A i \in 1..Len(RFC3339) :
             IF SubSeq(RFC3339, i, i) = "d" THEN SubSeq(s, i, i) \in DigitRunes
             ELSE SubSeq(s, i, i) = SubSeq(RFC3339, i, i)
    THEN [ok |-> TRUE, t |-> s]
    ELSE [ok |-> FALSE, t |-> zeroTime]

(***************************************************************************)
(* The providers and the errors of the backend.  An error is its message;  *)
(* "" is nil.                                                              *)
(***************************************************************************)
Zenodo == "zenodo"
Dataverse == "dataverse"
Invenio == "invenio"

errorReadOnly == "doi remotes are read only"
ErrorDirNotFound == "directory not found"
ErrorObjectNotFound == "object not found"
ErrorIsFile == "is a file not a directory"

doiResolverApiURL == "https://doi.org/api"

\* what a request can come to: a decoded 2xx response, a non-2xx status
\* (rest.Client returns the response and an error) or no response at all
Outcomes == {"ok", "404", "500", "transport"}

\* the error rest.Client.Call and CallJSON return
CallError(outcome) ==
    CASE outcome = "ok" -> ""
      [] outcome = "404" -> "HTTP error 404"
      [] outcome = "500" -> "HTTP error 500"
      [] outcome = "transport" -> "connection refused"

\* the error url.Parse returns
ParseError == "parse error"

(***************************************************************************)
(* DOI normalisation and resolution                                        *)
(***************************************************************************)
\* a parseDoi that returns the path of a doi.org URL as it is, with its
\* leading slash: the normalisation that C13 excludes
parseDoiURLPath(doi, doiURL) ==
    IF ~doiURL.ok THEN doi
    ELSE IF doiURL.Scheme = "doi" THEN TrimLeft(TrimLeft(doi, "doi:"), "/")
    ELSE IF HasSuffix(Hostname(doiURL), "doi.org") THEN doiURL.Path
    ELSE doi

\* parseDoi after its url.Parse
parseDoiURL(doi, doiURL) ==
    IF ~doiURL.ok THEN doi
    ELSE IF doiURL.Scheme = "doi" THEN TrimLeft(TrimLeft(doi, "doi:"), "/")
    ELSE IF HasSuffix(Hostname(doiURL), "doi.org") THEN TrimLeft(doiURL.Path, "/")
    ELSE doi

\* parseDoi
parseDoi(doi) == parseDoiURL(doi, Parse(doi))

RECURSIVE lastURLValue(_, _)
\* the loop of resolveDoiURL over result.Values: [err, str], str the data of
\* the last value of type URL and format string seen, cur before any
lastURLValue(values, cur) ==
    IF values = <<>> THEN [err |-> "", str |-> cur]
    ELSE IF Head(values).Type = "URL" /\ Head(values).Format = "string"
    THEN IF ~Head(values).IsString
         THEN [err |-> "could not resolve DOI (incorrect response format)", str |-> ""]
         ELSE lastURLValue(Tail(values), Head(values).Value)
    ELSE lastURLValue(Tail(values), cur)

\* resolveDoiURL after its request: found what its loop ends with,
\* resolvedURL the parse of the string found.  [err, url, reqs], reqs the
\* requests sent
resolveDoiURLFrom(reqs, result, found, resolvedURL) ==
    IF result.outcome # "ok"
    THEN [err |-> CallError(result.outcome), url |-> NoURL, reqs |-> reqs]
    ELSE IF result.ResponseCode # 1
    THEN [err |-> "could not resolve DOI (error code)", url |-> NoURL, reqs |-> reqs]
    ELSE IF found.err # "" THEN [err |-> found.err, url |-> NoURL, reqs |-> reqs]
    ELSE IF ~resolvedURL.ok THEN [err |-> ParseError, url |-> NoURL, reqs |-> reqs]
    ELSE [err |-> "", url |-> resolvedURL, reqs |-> reqs]

\* resolveDoiURL against the handle API's answer result
resolveDoiURLValues(reqs, result, found) ==
    resolveDoiURLFrom(reqs, result, found, Parse(found.str))

\* resolveDoiURL
resolveDoiURL(opt, result) ==
    resolveDoiURLValues(<<doiResolverApiURL \o "/handles/" \o parseDoi(opt.Doi) \o "?index=1">>,
                        result, lastURLValue(result.Values, ""))

(***************************************************************************)
(* Endpoint resolvers.  Each gives [provider, endpoint, reqs, err].        *)
(***************************************************************************)
\* a resolver's return of an error
NoEndpoint(reqs, err) == [provider |-> "", endpoint |-> NoURL, reqs |-> reqs, err |-> err]

\* a resolver's return of an endpoint
Endpoint(provider, endpoint, reqs) ==
    [provider |-> provider, endpoint |-> endpoint, reqs |-> reqs, err |-> ""]

\* a FindStringSubmatch whose group starts at position group of s, no match
\* for group = 0: [match, id]
Submatch(s, group) ==
    IF group = 0 THEN [match |-> FALSE, id |-> ""]
    ELSE [match |-> TRUE, id |-> SubSeq(s, group, Len(s))]

\* a match at the last "zenodo." of s instead of the first: the reading
\* of the regular expression that C9 excludes
zenodoRecordRegexLast(s) ==
    Submatch(s, Last({i + 7 : i \in {j \in 1..(Len(s) - 7) : SubSeq(s, j, j + 6) = "zenodo."}}))

\* zenodoRecordRegex = `zenodo[.](.+)`, FindStringSubmatch: the leftmost
\* "zenodo." with a character after it matches and the group runs to the
\* end of the string (the model's strings hold no newline)
zenodoRecordRegex(s) ==
    Submatch(s, First({i + 7 : i \in {j \in 1..(Len(s) - 7) : SubSeq(s, j, j + 6) = "zenodo."}}))

\* invenioRecordRegex = `\/records?\/(.+)`, FindStringSubmatch
invenioRecordRegex(s) ==
    Submatch(s, First({i + 9 : i \in {j \in 1..(Len(s) - 9) : SubSeq(s, j, j + 8) = "/records/"}}
                      \cup
                      {i + 8 : i \in {j \in 1..(Len(s) - 8) : SubSeq(s, j, j + 7) = "/record/"}}))

\* resolveZenodoEndpoint after its request to endpointURL: self is the parse
\* of result.Links.Self
zenodoEndpoint(reqs, result, self) ==
    IF result.outcome # "ok" THEN NoEndpoint(reqs, CallError(result.outcome))
    ELSE IF ~self.ok THEN NoEndpoint(reqs, ParseError)
    ELSE Endpoint(Zenodo, self, reqs)

\* resolveZenodoEndpoint after the match of the DOI
zenodoRecord(resolvedURL, match, result) ==
    IF ~match.match
    THEN NoEndpoint(<<>>, "could not derive API endpoint URL from '"
                          \o String(resolvedURL) \o "'")
    ELSE zenodoEndpoint(<<String(ResolveReference(resolvedURL, "/api/records/" \o match.id, ""))>>,
                        result, Parse(result.Self))

\* resolveZenodoEndpoint against the record API's answer result
resolveZenodoEndpoint(resolvedURL, doi, result) ==
    zenodoRecord(resolvedURL, zenodoRecordRegex(doi), result)

\* an endpoint that carries the landing page's query over as it is: the
\* endpoint that C10 tells from the encoded one
resolveDataverseEndpointRaw(resolvedURL) ==
    Endpoint(Dataverse,
             ResolveReference(resolvedURL, "/api/datasets/:persistentId/", resolvedURL.RawQuery),
             <<>>)

\* resolveDataverseEndpoint
resolveDataverseEndpoint(resolvedURL) ==
    Endpoint(Dataverse,
             ResolveReference(resolvedURL, "/api/datasets/:persistentId/",
                              QueryEncode("persistentId",
                                          QueryGet(resolvedURL.RawQuery, "persistentId"))),
             <<>>)

\* a validation that accepts an answer without links.self: url.Parse of
\* the empty string succeeds
checkedInvenioApiURLAny(resolvedURL, result, self) ==
    IF result.outcome # "ok" THEN [endpoint |-> NoURL, err |-> CallError(result.outcome)]
    ELSE IF ~self.ok THEN [endpoint |-> NoURL, err |-> ParseError]
    ELSE [endpoint |-> self, err |-> ""]

\* checkInvenioApiURL after its request: self the parse of result.Links.Self
checkedInvenioApiURL(resolvedURL, result, self) ==
    IF result.outcome # "ok" THEN [endpoint |-> NoURL, err |-> CallError(result.outcome)]
    ELSE IF result.Self = ""
    THEN [endpoint |-> NoURL,
          err |-> "could not parse API response from '" \o String(resolvedURL) \o "'"]
    ELSE IF ~self.ok THEN [endpoint |-> NoURL, err |-> ParseError]
    ELSE [endpoint |-> self, err |-> ""]

\* checkInvenioApiURL against the record API's answer result: [endpoint, err]
checkInvenioApiURL(resolvedURL, result) ==
    checkedInvenioApiURL(resolvedURL, result, Parse(result.Self))

RECURSIVE firstLinkset(_)
\* the loop of resolveInvenioEndpoint from a link of rel linkset and type
\* application/linkset+json on, parsed the parse of its href
linksetOr(parsed, links) == IF parsed.ok THEN parsed ELSE firstLinkset(links)

\* the loop of resolveInvenioEndpoint over the parsed Link header: the first
\* link of rel linkset and type application/linkset+json whose href parses,
\* NoURL (nil) when there is none
firstLinkset(links) ==
    IF links = <<>> THEN NoURL
    ELSE IF Head(links).Rel = "linkset" /\ Head(links).Type = "application/linkset+json"
    THEN linksetOr(Parse(Head(links).Href), Tail(links))
    ELSE firstLinkset(Tail(links))

\* resolveInvenioEndpoint from the record ID on: guessedURL the URL guessed
\* from the match, byGuess what checkInvenioApiURL makes of it
invenioGuessed(resolvedURL, reqs, match, guessedURL, byGuess) ==
    IF match.match /\ byGuess.err = ""
    THEN Endpoint(Invenio, byGuess.endpoint, Append(reqs, guessedURL))
    ELSE NoEndpoint(IF match.match THEN Append(reqs, guessedURL) ELSE reqs,
                    "could not resolve the Invenio API endpoint for '"
                    \o String(resolvedURL) \o "'")

\* resolveInvenioEndpoint from the record ID on, with the guess made
invenioGuessAt(resolvedURL, reqs, match, guessedURL, guessResult) ==
    invenioGuessed(resolvedURL, reqs, match, String(guessedURL),
                   checkInvenioApiURL(guessedURL, guessResult))

\* resolveInvenioEndpoint from the record ID on
invenioGuess(resolvedURL, reqs, resURL, match, guessResult) ==
    invenioGuessAt(resolvedURL, reqs, match,
                   ResolveReference(resURL, "/api/records/" \o match.id, ""), guessResult)

\* a discovery that gives up when the linkset URL fails: the discovery
\* without the fallback of C3
invenioLinksetOnly(resolvedURL, reqs, linksetURL, byLinkset, resURL, guessResult) ==
    IF linksetURL.ok
    THEN IF byLinkset.err = "" THEN Endpoint(Invenio, byLinkset.endpoint, reqs)
         ELSE NoEndpoint(reqs, byLinkset.err)
    ELSE invenioGuess(resolvedURL, reqs, resURL, invenioRecordRegex(EscapedPath(resURL)),
                      guessResult)

\* a discovery that prefers the guessed URL: the strategies in the order
\* that C21 excludes
invenioGuessFirst(resolvedURL, reqs, linksetURL, byLinkset, resURL, guessResult) ==
    IF invenioGuess(resolvedURL, reqs, resURL, invenioRecordRegex(EscapedPath(resURL)),
                    guessResult).err = ""
    THEN invenioGuess(resolvedURL, reqs, resURL, invenioRecordRegex(EscapedPath(resURL)),
                      guessResult)
    ELSE IF linksetURL.ok /\ byLinkset.err = ""
    THEN Endpoint(Invenio, byLinkset.endpoint, reqs)
    ELSE NoEndpoint(reqs, "could not resolve the Invenio API endpoint for '"
                          \o String(resolvedURL) \o "'")

\* resolveInvenioEndpoint after the linkset URL is tried: byLinkset what
\* checkInvenioApiURL makes of it
invenioLinkset(resolvedURL, reqs, linksetURL, byLinkset, resURL, guessResult) ==
    IF linksetURL.ok /\ byLinkset.err = ""
    THEN Endpoint(Invenio, byLinkset.endpoint, reqs)
    ELSE invenioGuess(resolvedURL, reqs, resURL, invenioRecordRegex(EscapedPath(resURL)),
                      guessResult)

\* resolveInvenioEndpoint after its first request: linksetURL what the Link
\* header gives, resURL the URL of the response's request
invenioLanding(resolvedURL, res, linksetURL, resURL, linksetResult, guessResult) ==
    IF res.outcome # "ok" THEN NoEndpoint(<<String(resolvedURL)>>, CallError(res.outcome))
    ELSE invenioLinkset(resolvedURL,
                        IF linksetURL.ok THEN <<String(resolvedURL), String(linksetURL)>>
                        ELSE <<String(resolvedURL)>>,
                        linksetURL, checkInvenioApiURL(linksetURL, linksetResult),
                        resURL, guessResult)

\* resolveInvenioEndpoint: res is the answer to the GET of the landing page
\* (its parsed Link header and the URL of the request after redirects),
\* linksetResult and guessResult the record API's answers for the two
\* candidates
resolveInvenioEndpoint(resolvedURL, res, linksetResult, guessResult) ==
    invenioLanding(resolvedURL, res, firstLinkset(res.Links), Parse(res.RequestURL),
                   linksetResult, guessResult)

\* resolveEndpoint after resolveDoiURL, hostname the lower-cased host of the
\* resolved URL
resolveProvider(opt, resolvedURL, hostname, record) ==
    IF hostname = "dataverse.harvard.edu" \/ opt.Provider = Dataverse
    THEN resolveDataverseEndpoint(resolvedURL)
    ELSE IF \/ hostname = "zenodo.org"
            \/ HasSuffix(hostname, ".zenodo.org")
            \/ opt.Provider = Zenodo
    THEN resolveZenodoEndpoint(resolvedURL, opt.Doi, record)
    ELSE NoEndpoint(<<>>, "provider '" \o Hostname(resolvedURL) \o "' is not supported")

\* a resolver's result after the requests reqs
After(reqs, resolved) == [resolved EXCEPT !.reqs = reqs \o resolved.reqs]

\* resolveEndpoint after resolveDoiURL
resolveEndpointFor(opt, resolved, record) ==
    IF resolved.err # "" THEN NoEndpoint(resolved.reqs, resolved.err)
    ELSE After(resolved.reqs,
               resolveProvider(opt, resolved.url, ToLower(Hostname(resolved.url)), record))

\* resolveEndpoint: handle is the handle API's answer, record the record
\* API's
resolveEndpoint(opt, handle, record) ==
    resolveEndpointFor(opt, resolveDoiURL(opt, handle), record)

(***************************************************************************)
(* The Fs, its metadata cache and the file listers                         *)
(***************************************************************************)
\* cache.New(): no key is set.  Of lib/cache the backend uses one key,
\* "files"; found says that it is set, files is its value, a []Object
NewCache == [found |-> FALSE, files |-> <<>>]

\* (*Cache).GetMaybe("files"): [found, files]
CacheGetMaybe(cache) == cache

\* (*Cache).Put("files", value)
CachePut(cache, value) == [found |-> TRUE, files |-> value]

\* the Fs before httpConnection has run on it
NoFs ==
    [root |-> "", doi |-> "", provider |-> "", opt |-> [Doi |-> "", Provider |-> ""],
     endpoint |-> NoURL, endpointURL |-> "", srv |-> "", cache |-> NewCache]

\* what a lister returns: [entries, err, cache, reqs, panic], cache the
\* cache of the Fs and reqs the requests sent when it returns
Entries(entries, err, cache, reqs) ==
    [entries |-> entries, err |-> err, cache |-> cache, reqs |-> reqs, panic |-> FALSE]

\* the end of a lister that forgets the Put: the lister without
\* the cache of C1
PopulateNothing(cache, entries, reqs) == Entries(entries, "", cache, reqs)

\* the end of a lister that stores its entries short of the first: the
\* partial cache value that C17 excludes
PopulatePart(cache, entries, reqs) ==
    Entries(entries, "", CachePut(cache, SubSeq(entries, 2, Len(entries))), reqs)

\* the end of both listers: the cache is populated and the entries returned
Populate(cache, entries, reqs) == Entries(entries, "", CachePut(cache, entries), reqs)

\* a modification time without the substitution of timeUnset: the zero time
\* time.Parse returns with an error, which C12 excludes
modTimeOfParse(parsed) == parsed.t

\* the modification time of an entry, parsed the parse of its timestamp
modTimeOf(parsed) == IF parsed.ok THEN parsed.t ELSE timeUnset

\* the Object built from one entry of api.InvenioFilesResponse
invenioObject(file) ==
    [remote |-> file.Key,
     contentURL |-> file.Content,
     size |-> file.Size,
     modTime |-> modTimeOf(ParseRFC3339(file.Updated)),
     contentType |-> file.MimeType,
     md5 |-> TrimLeft(file.Checksum, "md5:")]

\* the request listInvevioDoiFiles sends: rest.Opts.Path on the root of f.srv
invenioFilesRequest(f) ==
    f.srv \o TrimLeft(EscapedPath(JoinPath(f.endpoint, "files")), "/")

\* a lister that stores what it has when its request fails: no entries
\* under the key "files"
invenioFilesStoreFailure(f, result, reqs) ==
    IF result.outcome # "ok"
    THEN Entries(<<>>, "readDir failed: " \o CallError(result.outcome),
                 CachePut(f.cache, <<>>), reqs)
    ELSE Entries([i \in 1..Len(result.Entries) |-> invenioObject(result.Entries[i])], "",
                 CachePut(f.cache,
                          [i \in 1..Len(result.Entries) |-> invenioObject(result.Entries[i])]),
                 reqs)

\* listInvevioDoiFiles from its request on
invenioFiles(f, result, reqs) ==
    IF result.outcome # "ok"
    THEN Entries(<<>>, "readDir failed: " \o CallError(result.outcome), f.cache, reqs)
    ELSE Populate(f.cache,
                  [i \in 1..Len(result.Entries) |-> invenioObject(result.Entries[i])], reqs)

\* listInvevioDoiFiles against the files API's answer result
listInvevioDoiFiles(f, result) ==
    IF CacheGetMaybe(f.cache).found
    THEN Entries(CacheGetMaybe(f.cache).files, "", f.cache, <<>>)
    ELSE invenioFiles(f, result, <<invenioFilesRequest(f)>>)

\* what List returns: [files, dirs, err, cache, reqs, panic]
DirEntries(files, dirs, err, listed) ==
    [files |-> files, dirs |-> dirs, err |-> err, cache |-> listed.cache,
     reqs |-> listed.reqs, panic |-> listed.panic]

\* listInvenio after listInvevioDoiFiles
invenioEntries(listed) ==
    IF listed.err # "" THEN DirEntries(<<>>, <<>>, "error listing: " \o listed.err, listed)
    ELSE DirEntries(listed.entries, <<>>, "", listed)

\* listInvenio
listInvenio(f, dir, result) ==
    IF dir # "" THEN DirEntries(<<>>, <<>>, ErrorDirNotFound, Entries(<<>>, "", f.cache, <<>>))
    ELSE invenioEntries(listInvevioDoiFiles(f, result))

RECURSIVE Itoa(_)
\* fmt.Sprintf("%d", n) for n >= 0
Itoa(n) ==
    IF n < 10 THEN SubSeq(Digits, n + 1, n + 1)
    ELSE Itoa(n \div 10) \o SubSeq(Digits, (n % 10) + 1, (n % 10) + 1)

\* the Object built from one file of api.DataverseDatasetResponse
dataverseObject(f, file, modTime) ==
    [remote |-> IF file.OriginalFileName # ""
                THEN Join(file.DirectoryLabel, file.OriginalFileName)
                ELSE Join(file.DirectoryLabel, file.Filename),
     contentURL |-> String(ResolveReference(f.endpoint,
                                            "/api/access/datafile/" \o Itoa(file.ID),
                                            QueryEncode("format", "original"))),
     size |-> IF file.OriginalFileName # "" THEN file.OriginalFileSize ELSE file.FileSize,
     modTime |-> modTime,
     contentType |-> IF file.OriginalFileName # "" THEN file.OriginalFileFormat
                     ELSE file.ContentType,
     md5 |-> file.MD5]

\* the request listDataverseDoiFiles sends: rest.Opts.Path and Parameters on
\* the root of f.srv
dataverseFilesRequest(f) ==
    f.srv \o TrimLeft(EscapedPath(f.endpoint), "/") \o "?"
    \o QueryEncode("persistentId", QueryGet(f.endpoint.RawQuery, "persistentId"))

\* listDataverseDoiFiles from its request on.  With no response at all res
\* is nil and the res.Status of the error branch panics
dataverseFiles(f, result, reqs) ==
    IF result.outcome = "transport"
    THEN [Entries(<<>>, "", f.cache, reqs) EXCEPT !.panic = TRUE]
    ELSE IF result.outcome # "ok"
    THEN Entries(<<>>, "readDir failed: " \o CallError(result.outcome), f.cache, reqs)
    ELSE Populate(f.cache,
                  [i \in 1..Len(result.Files) |->
                      dataverseObject(f, result.Files[i],
                                      modTimeOf(ParseRFC3339(result.LastUpdateTime)))],
                  reqs)

\* listDataverseDoiFiles against the dataset API's answer result
listDataverseDoiFiles(f, result) ==
    IF CacheGetMaybe(f.cache).found
    THEN Entries(CacheGetMaybe(f.cache).files, "", f.cache, <<>>)
    ELSE dataverseFiles(f, result, <<dataverseFilesRequest(f)>>)

\* a first loop that compares directories by prefix, as its filter does:
\* the classification that C4 excludes
classifiedByPrefix(dir, remotePath, fileDir) ==
    IF HasPrefix(fileDir, dir) THEN [kind |-> "file", name |-> remotePath]
    ELSE IF ~Contains(fileDir, "/") THEN [kind |-> "dir", name |-> fileDir]
    ELSE [kind |-> "skip", name |-> ""]

\* the first loop of listDataverse on one entry that passed its filter,
\* remotePath the entry's remote relative to the root and fileDir the
\* directory part of that: "file" with the remote it is listed under, "dir"
\* with the key it sets in dirPaths, or "skip"
classified(dir, remotePath, fileDir) ==
    IF fileDir = dir THEN [kind |-> "file", name |-> remotePath]
    ELSE IF ~Contains(fileDir, "/") THEN [kind |-> "dir", name |-> fileDir]
    ELSE [kind |-> "skip", name |-> ""]

\* the first loop of listDataverse on one entry that passed its filter
classifyPath(dir, remotePath) == classified(dir, remotePath, SplitPath(remotePath))

\* the first loop of listDataverse on one entry
classify(f, dir, entry) ==
    IF ~HasPrefix(SplitPath(entry.remote), Trim(Join(f.root, dir), "/"))
    THEN [kind |-> "skip", name |-> ""]
    ELSE classifyPath(dir, IF f.root # ""
                           THEN TrimLeft(TrimPrefix(entry.remote, f.root), "/")
                           ELSE entry.remote)

\* the keys of the map dirPaths after the first loop of listDataverse
dirPaths(f, dir, fileEntries) ==
    {c.name : c \in {d \in {classify(f, dir, fileEntries[i]) : i \in 1..Len(fileEntries)} :
                        d.kind = "dir"}}

\* what the first loop of listDataverse appends for an entry
fileResult(entry, c) == IF c.kind = "file" THEN <<[entry EXCEPT !.remote = c.name]>> ELSE <<>>

RECURSIVE fileResults(_, _, _)
\* the file entries the first loop of listDataverse appends, in order
fileResults(f, dir, fileEntries) ==
    IF fileEntries = <<>> THEN <<>>
    ELSE fileResult(Head(fileEntries), classify(f, dir, Head(fileEntries)))
         \o fileResults(f, dir, Tail(fileEntries))

\* the orders in which a range over a map of these keys can run
Orders(keys) ==
    {order \in [1..Cardinality(keys) -> keys] :
        \A i, j \in 1..Cardinality(keys) : order[i] = order[j] => i = j}

\* listDataverse after listDataverseDoiFiles; order is the order in which
\* the range over dirPaths runs
dataverseEntries(f, dir, listed, order) ==
    IF listed.panic THEN DirEntries(<<>>, <<>>, "", listed)
    ELSE IF listed.err # "" THEN DirEntries(<<>>, <<>>, "error listing: " \o listed.err, listed)
    ELSE DirEntries(fileResults(f, dir, listed.entries),
                    [i \in 1..Len(order) |->
                        [remote |-> Join(dir, order[i]), modTime |-> zeroTime]],
                    "", listed)

\* listDataverse
listDataverse(f, dir, result, order) ==
    dataverseEntries(f, dir, listDataverseDoiFiles(f, result), order)

(***************************************************************************)
(* The remote services.  What a request comes to is chosen by the action   *)
(* that sends it; the data a service holds is fixed.                       *)
(***************************************************************************)
\* Options: the values of Doi and Provider
Options ==
    [Doi : {"10.5281/zenodo.15063252", "10.7910/DVN/ABC123", "10.5281/zenodo.",
            "doi:10.5072/zenodo.x/zenodo.7"},
     Provider : {"", Zenodo, Dataverse}]

ZenodoLanding == "https://zenodo.org/records/15063252"
HarvardLanding ==
    "https://dataverse.harvard.edu/dataset.xhtml?persistentId=doi:10.7910/DVN/ABC123"
DemoLanding == "https://demo.dataverse.org/dataset.xhtml?persistentId=doi%3A10.5072%2FFK2"
OtherLanding == "https://notzenodo.org/records/abc"

\* one element of DoiResolverResponse.Values of type URL; isString says
\* that its data.value is a JSON string
URLValue(value, isString) ==
    [Type |-> "URL", Format |-> "string", IsString |-> isString, Value |-> value]

AdminValue == [Type |-> "HS_ADMIN", Format |-> "admin", IsString |-> FALSE, Value |-> ""]

\* a decoded DoiResolverResponse
Handle(responseCode, values) ==
    [outcome |-> "ok", ResponseCode |-> responseCode, Values |-> values]

NoHandle == [outcome |-> "404", ResponseCode |-> 0, Values |-> <<>>]

\* answers of the handle API
HandleResults ==
    {Handle(1, <<URLValue(l, TRUE)>>) :
        l \in {ZenodoLanding, HarvardLanding, DemoLanding, OtherLanding,
               "https://Sandbox.Zenodo.org/records/7"}}
    \cup {Handle(1, <<AdminValue>>),
          Handle(1, <<URLValue(ZenodoLanding, TRUE), AdminValue>>),
          Handle(1, <<URLValue(":bad", TRUE)>>),
          Handle(1, <<URLValue("", FALSE)>>),
          Handle(100, <<URLValue(ZenodoLanding, TRUE)>>),
          NoHandle}

ZenodoSelf == "https://zenodo.org/api/records/15063252"
OtherSelf == "https://inveniordm.example.org/api/records/abc"

\* a decoded InvenioRecordResponse: its links.self
Record(self) == [outcome |-> "ok", Self |-> self]

NoRecord(outcome) == [outcome |-> outcome, Self |-> ""]

\* answers of a record API
RecordResults ==
    {Record(s) : s \in {"", ":bad", ZenodoSelf, OtherSelf}}
    \cup {NoRecord("404"), NoRecord("transport")}

\* the files of the records
RecordFiles(request) ==
    IF request = ZenodoSelf \o "/files"
    THEN <<[Key |-> "data.csv", Checksum |-> "md5:abcdef0123456789", Size |-> 10,
            Updated |-> "2024-01-02T03:04:05Z", MimeType |-> "text/csv",
            Content |-> ZenodoSelf \o "/files/data.csv/content"],
           [Key |-> "readme.md", Checksum |-> "md5:d5m0", Size |-> 3,
            Updated |-> "yesterday", MimeType |-> "", Content |-> ""]>>
    ELSE <<[Key |-> "a.txt", Checksum |-> "", Size |-> 0, Updated |-> "",
            MimeType |-> "text/plain", Content |-> OtherSelf \o "/files/a.txt/content"]>>

\* one element of DataverseDatasetVersion.Files
DataFile(label, id, filename, originalFileName) ==
    [DirectoryLabel |-> label, ID |-> id, Filename |-> filename, ContentType |-> "text/plain",
     FileSize |-> id, OriginalFileFormat |-> "text/csv", OriginalFileSize |-> 10 * id,
     OriginalFileName |-> originalFileName, MD5 |-> "abcdef0123456789"]

HarvardDataset ==
    "https://dataverse.harvard.edu/api/datasets/:persistentId/"
    \o "?persistentId=doi%3A10.7910%2FDVN%2FABC123"

\* the datasets: latestVersion.lastUpdateTime and latestVersion.files
DataverseVersion(request) ==
    IF request = HarvardDataset
    THEN [LastUpdateTime |-> "2024-01-02T03:04:05Z",
          Files |-> <<DataFile("", 1, "a.txt", ""),
                      DataFile("sub", 2, "b.txt", ""),
                      DataFile("sub", 3, "c.tab", "c.csv")>>]
    ELSE IF request = "https://demo.dataverse.org/api/datasets/:persistentId/"
                      \o "?persistentId=doi%3A10.5072%2FFK2"
    THEN [LastUpdateTime |-> "last week",
          Files |-> <<DataFile("sub", 11, "f1.txt", ""),
                      DataFile("subdir", 12, "f2.txt", ""),
                      DataFile("sub/x", 13, "f3.txt", ""),
                      DataFile("a/b", 14, "c.txt", ""),
                      DataFile("sub", 15, "dup.tab", "f1.txt")>>]
    ELSE [LastUpdateTime |-> "", Files |-> <<>>]

\* the answer to the request of listInvevioDoiFiles
InvenioFilesResult(f, outcome) ==
    [outcome |-> outcome, Entries |-> RecordFiles(invenioFilesRequest(f))]

\* the answer to the request of listDataverseDoiFiles
DataverseFilesResult(f, outcome) ==
    [outcome |-> outcome] @@ DataverseVersion(dataverseFilesRequest(f))

(***************************************************************************)
(* httpConnection                                                          *)
(***************************************************************************)
\* what a caller of a lister is given: called says that the lister ran and
\* returned
NoListed == [called |-> FALSE, err |-> "", entries |-> <<>>]

Listed(listed) ==
    IF listed.panic THEN NoListed
    ELSE [called |-> TRUE, err |-> listed.err, entries |-> listed.entries]

\* what httpConnection returns and does: [f, isFile, err, reqs, panic,
\* renewed, listed], f the Fs when it returns, renewed when f.cache was
\* replaced by a new cache
Connection(f, isFile, err, reqs, renewed, listed) ==
    [f |-> f, isFile |-> isFile, err |-> err, reqs |-> reqs, panic |-> FALSE,
     renewed |-> renewed, listed |-> listed]

\* httpConnection for Dataverse after listDataverseDoiFiles
dataverseIsFile(g, reqs, listed) ==
    [Connection([g EXCEPT !.cache = listed.cache],
                /\ ~listed.panic
                /\ listed.err = ""
                /\ \E i \in 1..Len(listed.entries) : listed.entries[i].remote = g.root,
                listed.err, reqs \o listed.reqs, TRUE, Listed(listed))
     EXCEPT !.panic = listed.panic]

\* httpConnection after f is updated to g
isFile(g, reqs, outcome) ==
    IF g.provider = Dataverse
    THEN dataverseIsFile(g, reqs, listDataverseDoiFiles(g, DataverseFilesResult(g, outcome)))
    ELSE Connection(g, g.provider = Zenodo /\ g.root # "", "", reqs, TRUE, NoListed)

\* a httpConnection that leaves f.provider as it was: the reconfiguration
\* that C14 excludes
connectSameProvider(f, opt, resolved, outcome) ==
    IF resolved.err # "" THEN Connection(f, FALSE, resolved.err, resolved.reqs, FALSE, NoListed)
    ELSE isFile([f EXCEPT !.srv = String(ResolveReference(resolved.endpoint, "/", "")),
                           !.cache = NewCache,
                           !.endpoint = resolved.endpoint,
                           !.endpointURL = String(resolved.endpoint),
                           !.doi = parseDoi(opt.Doi)],
                resolved.reqs, outcome)

\* httpConnection after resolveEndpoint
connect(f, opt, resolved, outcome) ==
    IF resolved.err # "" THEN Connection(f, FALSE, resolved.err, resolved.reqs, FALSE, NoListed)
    ELSE isFile([f EXCEPT !.srv = String(ResolveReference(resolved.endpoint, "/", "")),
                          !.cache = NewCache,
                          !.endpoint = resolved.endpoint,
                          !.endpointURL = String(resolved.endpoint),
                          !.doi = parseDoi(opt.Doi),
                          !.provider = resolved.provider],
                resolved.reqs, outcome)

\* httpConnection: handle and record are the answers of the handle API and
\* the record API, outcome what the request to the dataset API comes to
httpConnection(f, opt, handle, record, outcome) ==
    connect(f, opt, resolveEndpoint(opt, handle, record), outcome)

(***************************************************************************)
(* The state                                                               *)
(***************************************************************************)
VARIABLES
    phase,      \* "start" before NewFs, "ready" with an Fs, "failed" when NewFs
                \* returned no Fs, "crashed" after a panic
    f,          \* the Fs
    last,       \* the last operation on the Fs, its arguments and what it returned
    fetches,    \* the file-metadata requests sent since f.cache was created:
                \* n how many, okAt which of them was the first answered 2xx
    first,      \* what the first successful lister call since f.cache was
                \* created returned
    conn,       \* the last application of resolveEndpoint, with its inputs
    inv,        \* the last application of resolveInvenioEndpoint, with its inputs
    app,        \* the last application of a function on its own: its name fn, its
                \* argument arg, what it returned, out or links, and in before the
                \* argument of the application before it when arg is what that
                \* one returned
    calls       \* the lister calls in progress, by the process that makes them

vars == <<phase, f, last, fetches, first, conn, inv, app, calls>>

\* file-metadata requests sent on one cache
MaxFetches == 2

\* the processes that call the listers of one Fs concurrently
MaxCalls == 2
Procs == 1..MaxCalls

\* a process outside a lister call.  In a call pc is the position of the
\* process: "fetch" before the request, "put" before f.cache.Put, "done"
\* when the lister has returned entries and err; reqs are the requests it
\* has sent and put is the value it is about to store
Idle == [pc |-> "idle", entries |-> <<>>, err |-> "", reqs |-> <<>>, put |-> NewCache]

NoLast ==
    [op |-> "", arg |-> "", err |-> "", files |-> <<>>, dirs |-> <<>>, reqs |-> <<>>,
     listed |-> NoListed, out |-> ""]

Init ==
    /\ phase = "start"
    /\ f = NoFs
    /\ last = NoLast
    /\ fetches = [n |-> 0, okAt |-> 0]
    /\ first = [set |-> FALSE, entries |-> <<>>]
    /\ conn = [called |-> FALSE, opt |-> [Doi |-> "", Provider |-> ""], handle |-> NoHandle,
               record |-> NoRecord("404"),
               resolved |-> [err |-> "", url |-> NoURL, reqs |-> <<>>],
               out |-> NoEndpoint(<<>>, "")]
    /\ inv = [called |-> FALSE, resolvedURL |-> "", res |-> [outcome |-> "404", Links |-> <<>>, RequestURL |-> ""],
              linkset |-> NoRecord("404"), guess |-> NoRecord("404"),
              out |-> NoEndpoint(<<>>, "")]
    /\ app = [fn |-> "", arg |-> "", out |-> "", before |-> "", links |-> <<>>]
    /\ calls = [p \in Procs |-> Idle]

\* the requests counted after a lister call that sent reqs
Counted(listed, reqs) ==
    [n |-> fetches.n + Len(reqs),
     okAt |-> IF fetches.okAt = 0 /\ reqs # <<>> /\ listed.called /\ listed.err = ""
              THEN fetches.n + Len(reqs) ELSE fetches.okAt]

\* the requests counted after httpConnection
Recounted(c) ==
    IF ~c.renewed THEN fetches
    ELSE [n |-> IF c.listed.called \/ c.panic THEN 1 ELSE 0,
          okAt |-> IF c.listed.called /\ c.listed.err = "" THEN 1 ELSE 0]

\* the first successful lister call remembered
Remembered(listed) ==
    IF ~first.set /\ listed.called /\ listed.err = ""
    THEN [set |-> TRUE, entries |-> listed.entries]
    ELSE first

\* the first successful lister call remembered after httpConnection
Renewed(c) ==
    IF ~c.renewed THEN first
    ELSE IF c.listed.called /\ c.listed.err = ""
    THEN [set |-> TRUE, entries |-> c.listed.entries]
    ELSE [set |-> FALSE, entries |-> <<>>]

\* a lister call may send a request
MayList == f.cache.found \/ fetches.n < MaxFetches

\* what a lister's request can come to; one value when it sends none
FetchOutcomes == IF f.cache.found THEN {"ok"} ELSE Outcomes

(***************************************************************************)
(* The operations                                                          *)
(***************************************************************************)
\* the root NewFs gives the Fs of a file, dir the path.Dir of the root
newRoot(dir) == IF dir = "." THEN "" ELSE dir

\* NewFs after httpConnection
NewFsConnected(root, c) ==
    /\ phase' = IF c.panic THEN "crashed" ELSE IF c.err # "" THEN "failed" ELSE "ready"
    /\ f' = IF c.panic \/ c.err # "" THEN NoFs
            ELSE IF c.isFile
            THEN [c.f EXCEPT !.root = newRoot(Dir(c.f.root))]
            ELSE c.f
    /\ last' = [NoLast EXCEPT !.op = "NewFs", !.arg = root,
                              !.err = IF c.err # "" THEN c.err
                                      ELSE IF c.isFile /\ ~c.panic THEN ErrorIsFile ELSE "",
                              !.reqs = c.reqs, !.listed = c.listed]
    /\ fetches' = IF c.panic \/ c.err # "" THEN fetches ELSE Recounted(c)
    /\ first' = IF c.panic \/ c.err # "" THEN first ELSE Renewed(c)
    /\ UNCHANGED <<conn, inv, app, calls>>

\* NewFs
NewFs(root, opt, handle, record, outcome) ==
    /\ phase = "start"
    /\ NewFsConnected(root,
                      httpConnection([NoFs EXCEPT !.root = Trim(root, "/"), !.opt = opt],
                                     opt, handle, record, outcome))

\* an operation that called a lister returns
Returns(op, arg, listed, r) ==
    /\ phase' = IF listed.panic THEN "crashed" ELSE "ready"
    /\ f' = [f EXCEPT !.cache = listed.cache]
    /\ last' = [op |-> op, arg |-> arg, err |-> r.err, files |-> r.files, dirs |-> r.dirs,
                reqs |-> listed.reqs, listed |-> Listed(listed), out |-> ""]
    /\ fetches' = Counted(Listed(listed), listed.reqs)
    /\ first' = Remembered(Listed(listed))
    /\ UNCHANGED <<conn, inv, app, calls>>

\* an operation that called no lister returns
Fails(op, arg, err) ==
    /\ last' = [NoLast EXCEPT !.op = op, !.arg = arg, !.err = err]
    /\ UNCHANGED <<phase, f, fetches, first, conn, inv, app, calls>>

\* (*Fs).List for Dataverse, listed what listDataverseDoiFiles returns
ListDataverse(dir, result, listed) ==
    \E order \in Orders(dirPaths(f, dir, listed.entries)) :
        Returns("List", dir, listed, listDataverse(f, dir, result, order))

\* (*Fs).List for Zenodo: its listZenodo and listZenodoDoiFiles are the
\* listInvenio and listInvevioDoiFiles of invenio.go; listed is what
\* listInvevioDoiFiles returns
ListZenodo(dir, result, listed) ==
    IF dir # "" THEN Fails("List", dir, ErrorDirNotFound)
    ELSE Returns("List", dir, listed, listInvenio(f, dir, result))

\* (*Fs).List
List(dir, outcome) ==
    /\ phase = "ready"
    /\ MayList
    /\ CASE f.provider = Dataverse ->
                ListDataverse(dir, DataverseFilesResult(f, outcome),
                              listDataverseDoiFiles(f, DataverseFilesResult(f, outcome)))
         [] f.provider = Zenodo ->
                ListZenodo(dir, InvenioFilesResult(f, outcome),
                           listInvevioDoiFiles(f, InvenioFilesResult(f, outcome)))
         [] OTHER -> Fails("List", dir, "provider type '" \o f.provider \o "' not supported")

RECURSIVE findRemote(_, _)
\* the loop of NewObject: the first entry whose Remote() is remote
findRemote(entries, remote) ==
    IF entries = <<>> THEN <<>>
    ELSE IF Head(entries).remote = remote THEN <<Head(entries)>>
    ELSE findRemote(Tail(entries), remote)

\* NewObject after its loop
newObject(listed, found) ==
    [err |-> IF listed.panic THEN "" ELSE IF listed.err # "" THEN listed.err
             ELSE IF found = <<>> THEN ErrorObjectNotFound ELSE "",
     files |-> IF listed.panic \/ listed.err # "" THEN <<>> ELSE found,
     dirs |-> <<>>]

\* NewObject after the lister
NewObjectIn(remote, listed) ==
    Returns("NewObject", remote, listed, newObject(listed, findRemote(listed.entries, remote)))

\* (*Fs).NewObject
NewObject(remote, outcome) ==
    /\ phase = "ready"
    /\ MayList
    /\ CASE f.provider = Dataverse ->
                NewObjectIn(remote, listDataverseDoiFiles(f, DataverseFilesResult(f, outcome)))
         [] f.provider = Zenodo ->
                NewObjectIn(remote, listInvevioDoiFiles(f, InvenioFilesResult(f, outcome)))
         [] OTHER ->
                Fails("NewObject", remote, "provider type '" \o f.provider \o "' not supported")

\* a Mkdir that returns nil, the write that C2 excludes
MkdirNil(dir) == phase = "ready" /\ Fails("Mkdir", dir, "")

\* (*Fs).Mkdir
Mkdir(dir) == phase = "ready" /\ Fails("Mkdir", dir, errorReadOnly)

\* (*Fs).Rmdir
Rmdir(dir) == phase = "ready" /\ Fails("Rmdir", dir, errorReadOnly)

\* (*Fs).Put
Put(remote) == phase = "ready" /\ Fails("Put", remote, errorReadOnly)

\* (*Fs).PutStream
PutStream(remote) == phase = "ready" /\ Fails("PutStream", remote, errorReadOnly)

\* (*Object).Remove
Remove(remote) == phase = "ready" /\ Fails("Remove", remote, errorReadOnly)

\* (*Object).Update
Update(remote) == phase = "ready" /\ Fails("Update", remote, errorReadOnly)

\* (*Object).SetModTime
SetModTime(remote) == phase = "ready" /\ Fails("SetModTime", remote, errorReadOnly)

\* the Objects a caller can hold: those the listers have returned
Objects == {f.cache.files[i] : i \in 1..Len(f.cache.files)}

\* hash.ErrUnsupported
ErrUnsupported == "hash type not supported"

\* a method of an Object returns out and err
Gives(op, o, out, err) ==
    /\ last' = [NoLast EXCEPT !.op = op, !.arg = o.remote, !.files = <<o>>, !.out = out,
                              !.err = err]
    /\ UNCHANGED <<phase, f, fetches, first, conn, inv, app, calls>>

\* (*Object).Hash, t the hash type
Hash(o, t) ==
    /\ phase = "ready"
    /\ IF t # "md5" THEN Gives("Hash", o, "", ErrUnsupported)
       ELSE Gives("Hash", o, o.md5, "")

\* the URL of a request with rest.Opts.RootURL rootURL and no Path: the
\* root of f.srv stands in for an empty RootURL
RootURL(rootURL) == IF rootURL = "" THEN f.srv ELSE rootURL

\* (*Object).Open, outcome what its request comes to.  With no response at
\* all res is nil and the res.Status of the error branch panics
Open(o, outcome) ==
    /\ phase = "ready"
    /\ phase' = IF outcome = "transport" THEN "crashed" ELSE phase
    /\ last' = [NoLast EXCEPT !.op = "Open", !.arg = o.remote, !.files = <<o>>,
                              !.reqs = <<RootURL(o.contentURL)>>,
                              !.out = IF outcome = "ok" THEN "res.Body" ELSE "",
                              !.err = IF outcome \in {"ok", "transport"} THEN ""
                                      ELSE "Open failed: " \o CallError(outcome)]
    /\ UNCHANGED <<f, fetches, first, conn, inv, app, calls>>

\* (*Fs).Command("show-metadata"), that is (*Fs).ShowMetadata
ShowMetadata(outcome) ==
    /\ phase = "ready"
    /\ last' = [NoLast EXCEPT !.op = "show-metadata",
                              !.reqs = <<RootURL(String(f.endpoint))>>,
                              !.out = IF outcome = "ok" THEN "result" ELSE "",
                              !.err = CallError(outcome)]
    /\ UNCHANGED <<phase, f, fetches, first, conn, inv, app, calls>>

\* Command "set" after httpConnection
CommandSetConnected(o, newOpt, c) ==
    /\ phase' = IF c.panic THEN "crashed" ELSE "ready"
    /\ f' = IF c.err = "" /\ ~c.panic THEN [c.f EXCEPT !.opt = newOpt] ELSE c.f
    /\ last' = [NoLast EXCEPT !.op = "set", !.arg = o.key \o "=" \o o.value,
                              !.err = IF c.panic \/ c.err = "" THEN ""
                                      ELSE "updating session: " \o c.err,
                              !.reqs = c.reqs, !.listed = c.listed]
    /\ fetches' = Recounted(c)
    /\ first' = Renewed(c)
    /\ UNCHANGED <<conn, inv, app, calls>>

\* Command "set" with the options merged
CommandSetOpt(o, newOpt, handle, record, outcome) ==
    CommandSetConnected(o, newOpt, httpConnection(f, newOpt, handle, record, outcome))

\* (*Fs).Command("set", nil, {o.key: o.value})
CommandSet(o, handle, record, outcome) ==
    /\ phase = "ready"
    /\ CommandSetOpt(o, IF o.key = "doi" THEN [f.opt EXCEPT !.Doi = o.value]
                        ELSE [f.opt EXCEPT !.Provider = o.value],
                     handle, record, outcome)

(***************************************************************************)
(* The resolvers applied on their own                                      *)
(***************************************************************************)
\* resolveEndpoint(ctx, client, &opt), with the resolveDoiURL it starts with
ResolveEndpoint(opt, handle, record) ==
    /\ ~conn.called /\ ~inv.called /\ app.fn = ""
    /\ conn' = [called |-> TRUE, opt |-> opt, handle |-> handle, record |-> record,
                resolved |-> resolveDoiURL(opt, handle),
                out |-> resolveEndpoint(opt, handle, record)]
    /\ UNCHANGED <<phase, f, last, fetches, first, inv, app, calls>>

\* one element of the parsed Link header
Link(href, rel, type) == [Href |-> href, Rel |-> rel, Type |-> type]

LinksetCandidate == "https://notzenodo.org/api/records/abc"

\* answers to the GET of the landing page: the parsed Link headers, and the
\* URL at which the request ends after redirects
PageResults ==
    {[outcome |-> "ok", Links |-> l, RequestURL |-> u] :
        l \in {<<>>,
               <<Link(LinksetCandidate, "linkset", "application/linkset+json")>>,
               <<Link("https://notzenodo.org/static/style.css", "stylesheet", "text/css"),
                 Link(LinksetCandidate, "linkset", "application/linkset+json")>>,
               <<Link(":bad", "linkset", "application/linkset+json"),
                 Link(OtherSelf, "linkset", "application/linkset+json")>>,
               <<Link(LinksetCandidate, "linkset", "application/json")>>},
        u \in {OtherLanding, "https://notzenodo.org/record/abc/",
               "https://notzenodo.org/communities/c"}}
    \cup {[outcome |-> "transport", Links |-> <<>>, RequestURL |-> ""]}

\* resolveInvenioEndpoint(ctx, client, resolvedURL)
ResolveInvenio(resolvedURL, res, linkset, guess) ==
    /\ ~conn.called /\ ~inv.called /\ app.fn = ""
    /\ inv' = [called |-> TRUE, resolvedURL |-> resolvedURL, res |-> res,
               linkset |-> linkset, guess |-> guess,
               out |-> resolveInvenioEndpoint(Parse(resolvedURL), res, linkset, guess)]
    /\ UNCHANGED <<phase, f, last, fetches, first, conn, app, calls>>

\* the forms a DOI is given in: bare, with the scheme doi, and as a URL of
\* doi.org or dx.doi.org
DoiForms(doi) ==
    {doi, "doi:" \o doi, "https://doi.org/" \o doi, "https://dx.doi.org/" \o doi,
     "http://dx.doi.org/" \o doi}

\* the DOIs parseDoi is applied to
BareDois ==
    {"10.5281/zenodo.15063252", "10.7910/DVN/ABC123", "10.1000/182", "10.1000/doi:5",
     "10.5072/FK2/doi.org"}

\* parseDoi(doi), applied to a form of a DOI or to what it returned before
ParseDoi(doi) ==
    /\ ~conn.called /\ ~inv.called /\ app.fn \in {"", "parseDoi"}
    /\ app' = [fn |-> "parseDoi", arg |-> doi, out |-> parseDoi(doi),
               before |-> IF app.fn = "parseDoi" /\ app.out = doi THEN app.arg ELSE "",
               links |-> <<>>]
    /\ UNCHANGED <<phase, f, last, fetches, first, conn, inv, calls>>

\* the first position of the character sep in s that is outside angle
\* brackets, 0 when there is none: no "<" before it is still open
cutOutside(s, sep) ==
    First({i \in 1..Len(s) :
              /\ SubSeq(s, i, i) = sep
              /\ LastIndex(SubSeq(s, 1, i - 1), "<") <= LastIndex(SubSeq(s, 1, i - 1), ">")})

RECURSIVE splitOutside(_, _)
\* the pieces of s between the occurrences of sep outside angle brackets
splitOutside(s, sep) ==
    IF cutOutside(s, sep) = 0 THEN <<s>>
    ELSE <<SubSeq(s, 1, cutOutside(s, sep) - 1)>>
         \o splitOutside(SubSeq(s, cutOutside(s, sep) + 1, Len(s)), sep)

\* a parameter value as the parser leaves it: with its double quotes
UnquoteNothing(value) == value

\* a parameter value without the double quotes around it
Unquote(value) ==
    IF Len(value) >= 2 /\ HasPrefix(value, "\"") /\ HasSuffix(value, "\"")
    THEN SubSeq(value, 2, Len(value) - 1)
    ELSE value

\* a headerLink after its parameter name=value: rel and type have fields
\* of their own, every other parameter is kept in Extras
withParam(link, name, value) ==
    CASE name = "rel" -> [link EXCEPT !.Rel = value]
      [] name = "type" -> [link EXCEPT !.Type = value]
      [] OTHER -> [link EXCEPT !.Extras = [n \in DOMAIN link.Extras \cup {name} |->
                                             IF n = name THEN value ELSE link.Extras[n]]]

RECURSIVE linkParams(_, _)
\* a headerLink after the parameters params, each the text between two
\* semicolons; a text without "=" is no parameter
linkParams(link, params) ==
    IF params = <<>> THEN link
    ELSE IF Index(Head(params), "=") = 0 THEN linkParams(link, Tail(params))
    ELSE linkParams(withParam(link,
                              Trim(SubSeq(Head(params), 1, Index(Head(params), "=") - 1), " "),
                              Unquote(Trim(SubSeq(Head(params), Index(Head(params), "=") + 1,
                                                  Len(Head(params))), " "))),
                    Tail(params))

\* the headerLink of one link of the header, pieces its text split at the
\* semicolons: Extras is an empty map before the parameters are read
headerLink(pieces) ==
    linkParams([Href |-> Trim(Trim(Head(pieces), " "), "<>"), Rel |-> "", Type |-> "",
                Extras |-> [n \in {} |-> ""]],
               Tail(pieces))

\* parseLinkHeader(header): the header is split at the commas, each link at
\* its semicolons; no link for an empty header
parseLinkHeader(header) ==
    IF Trim(header, " ") = "" THEN <<>>
    ELSE [i \in 1..Len(splitOutside(header, ",")) |->
             headerLink(splitOutside(splitOutside(header, ",")[i], ";"))]

\* the header of one link to url with the parameters of a linkset, written
\* as TestParseLinkHeader writes it
LinksetHeader(url) ==
    "<" \o url \o "> ; rel=\"linkset\" ; type=\"application/linkset+json\""

\* the URLs of the links parseLinkHeader is applied to
LinkURLs == {"https://zenodo.org/api/records/15063252", "https://notzenodo.org/api/r;v=1,2"}

\* the headers parseLinkHeader is applied to
LinkHeaders ==
    {LinksetHeader(url) : url \in LinkURLs}
    \cup {LinksetHeader(url) \o " ; title=\"record\"" : url \in LinkURLs}
    \cup {"<" \o url \o ">;rel=linkset;type=application/linkset+json" : url \in LinkURLs}
    \cup {"<https://notzenodo.org/records/abc> ; rel=\"item\", " \o LinksetHeader(url) :
              url \in LinkURLs}
    \cup {""}

\* parseLinkHeader(header)
ParseLinkHeader(header) ==
    /\ ~conn.called /\ ~inv.called /\ app.fn \in {"", "parseLinkHeader"}
    /\ app' = [fn |-> "parseLinkHeader", arg |-> header, out |-> "", before |-> "",
               links |-> parseLinkHeader(header)]
    /\ UNCHANGED <<phase, f, last, fetches, first, conn, inv, calls>>

(***************************************************************************)
(* The listers called concurrently                                         *)
(***************************************************************************)
\* a lister begins: f.cache.GetMaybe("files"), and the return of the cached
\* entries when the key is set
ListerGetMaybe(p) ==
    /\ phase = "ready"
    /\ f.provider \in {Zenodo, Dataverse}
    /\ calls[p].pc = "idle"
    /\ calls' = [calls EXCEPT ![p] =
                    IF CacheGetMaybe(f.cache).found
                    THEN [Idle EXCEPT !.pc = "done", !.entries = CacheGetMaybe(f.cache).files]
                    ELSE [Idle EXCEPT !.pc = "fetch"]]
    /\ UNCHANGED <<phase, f, last, fetches, first, conn, inv, app>>

\* a lister after its request: r is what it is about to return, r.cache
\* the value of its f.cache.Put
ListerFetched(p, r) ==
    /\ phase' = IF r.panic THEN "crashed" ELSE phase
    /\ calls' = [calls EXCEPT ![p] =
                    [pc |-> IF r.panic \/ r.err # "" THEN "done" ELSE "put",
                     entries |-> r.entries, err |-> r.err, reqs |-> r.reqs, put |-> r.cache]]
    /\ UNCHANGED <<f, last, fetches, first, conn, inv, app>>

\* a lister sends its request and builds its entries from the answer
ListerFetch(p, outcome) ==
    /\ phase = "ready"
    /\ calls[p].pc = "fetch"
    /\ IF f.provider = Dataverse
       THEN ListerFetched(p, dataverseFiles(f, DataverseFilesResult(f, outcome),
                                            <<dataverseFilesRequest(f)>>))
       ELSE ListerFetched(p, invenioFiles(f, InvenioFilesResult(f, outcome),
                                          <<invenioFilesRequest(f)>>))

\* a lister populates the cache, f.cache.Put("files", cacheEntries), and
\* returns its entries
ListerPut(p) ==
    /\ phase = "ready"
    /\ calls[p].pc = "put"
    /\ f' = [f EXCEPT !.cache = calls[p].put]
    /\ calls' = [calls EXCEPT ![p].pc = "done"]
    /\ UNCHANGED <<phase, last, fetches, first, conn, inv, app>>

\* the caller takes the result; the process may call a lister again
ListerReturn(p) ==
    /\ phase = "ready"
    /\ calls[p].pc = "done"
    /\ calls' = [calls EXCEPT ![p] = Idle]
    /\ UNCHANGED <<phase, f, last, fetches, first, conn, inv, app>>

(***************************************************************************)
(* The specifications                                                      *)
(***************************************************************************)
\* the directories and remotes of the operations
Dirs == {"", "sub", "x"}
Remotes == {"sub/b.txt", "data.csv"}

\* what the services answer while a session connects: handle the answer of
\* the handle API, record of the record API, outcome of the dataset API
SessionAnswers ==
    {[handle |-> NoHandle, record |-> NoRecord("404"), outcome |-> "ok"],
     [handle |-> Handle(1, <<URLValue(ZenodoLanding, TRUE)>>), record |-> Record(ZenodoSelf),
      outcome |-> "ok"],
     [handle |-> Handle(1, <<URLValue(ZenodoLanding, TRUE)>>), record |-> NoRecord("404"),
      outcome |-> "ok"],
     [handle |-> Handle(1, <<URLValue(DemoLanding, TRUE)>>), record |-> NoRecord("404"),
      outcome |-> "ok"]}
    \cup {[handle |-> Handle(1, <<URLValue(HarvardLanding, TRUE)>>), record |-> NoRecord("404"),
           outcome |-> outcome] : outcome \in Outcomes}

Next ==
    \/ \E root \in {"", "sub", "/sub/b.txt"},
          opt \in {[Doi |-> "10.5281/zenodo.15063252", Provider |-> ""],
                   [Doi |-> "10.7910/DVN/ABC123", Provider |-> ""],
                   [Doi |-> "10.7910/DVN/ABC123", Provider |-> Dataverse]},
          a \in SessionAnswers :
            NewFs(root, opt, a.handle, a.record, a.outcome)
    \/ \E dir \in Dirs, outcome \in FetchOutcomes : List(dir, outcome)
    \/ \E remote \in Remotes, outcome \in FetchOutcomes : NewObject(remote, outcome)
    \/ \E dir \in Dirs : Mkdir(dir)
    \/ \E dir \in Dirs : Rmdir(dir)
    \/ \E remote \in Remotes : Put(remote)
    \/ \E remote \in Remotes : PutStream(remote)
    \/ \E remote \in Remotes : Remove(remote)
    \/ \E remote \in Remotes : Update(remote)
    \/ \E remote \in Remotes : SetModTime(remote)
    \/ \E o \in Objects, t \in {"md5", "sha1"} : Hash(o, t)
    \/ \E o \in Objects, outcome \in Outcomes : Open(o, outcome)
    \/ \E outcome \in Outcomes : ShowMetadata(outcome)
    \/ \E o \in {[key |-> "provider", value |-> Dataverse],
                  [key |-> "doi", value |-> "10.5281/zenodo.15063252"]},
          a \in SessionAnswers :
            CommandSet(o, a.handle, a.record, a.outcome)

\* the operations of one Fs, from NewFs on
Spec == Init /\ [][Next]_vars

NextResolve ==
    \/ \E opt \in Options, handle \in HandleResults, record \in RecordResults :
            ResolveEndpoint(opt, handle, record)
    \/ \E resolvedURL \in {OtherLanding}, res \in PageResults,
          linkset \in RecordResults, guess \in RecordResults :
            ResolveInvenio(resolvedURL, res, linkset, guess)
    \/ \E doi \in UNION {DoiForms(d) : d \in BareDois}
                   \cup (IF app.fn = "parseDoi" THEN {app.out} ELSE {}) :
            ParseDoi(doi)
    \/ \E header \in LinkHeaders : ParseLinkHeader(header)

\* the endpoint resolvers, applied to every answer of the services, and the
\* functions applied on their own
SpecResolve == Init /\ [][NextResolve]_vars

NextConc ==
    \/ \E root \in {"", "sub"},
          opt \in {[Doi |-> "10.5281/zenodo.15063252", Provider |-> ""],
                   [Doi |-> "10.7910/DVN/ABC123", Provider |-> ""]},
          a \in SessionAnswers :
            NewFs(root, opt, a.handle, a.record, a.outcome)
    \/ \E a \in SessionAnswers :
            /\ \A p \in Procs : calls[p].pc = "idle"
            /\ CommandSet([key |-> "provider", value |-> Dataverse], a.handle, a.record,
                          a.outcome)
    \/ \E p \in Procs : ListerGetMaybe(p)
    \/ \E p \in Procs, outcome \in Outcomes : ListerFetch(p, outcome)
    \/ \E p \in Procs : ListerPut(p)
    \/ \E p \in Procs : ListerReturn(p)

\* lister calls of several processes on one Fs, their steps interleaved
SpecConc == Init /\ [][NextConc]_vars


NextSet ==
    \/ \E a \in SessionAnswers :
            NewFs("", [Doi |-> "10.5281/zenodo.15063252", Provider |-> ""], a.handle, a.record,
                  a.outcome)
    \/ \E a \in {x \in SessionAnswers : x.record.outcome = "ok" \/ x.outcome \in {"ok", "500"}} :
            CommandSet([key |-> "doi", value |-> "10.7910/DVN/ABC123"], a.handle, a.record,
                       a.outcome)
    \/ \E p \in Procs : ListerGetMaybe(p)
    \/ \E p \in Procs, outcome \in {"ok", "500"} : ListerFetch(p, outcome)
    \/ \E p \in Procs : ListerPut(p)
    \/ \E p \in Procs : ListerReturn(p)

\* the "set" command, run whole between two steps of the lister calls of
\* the processes: nothing in the Fs orders the two
SpecSet == Init /\ [][NextSet]_vars

(***************************************************************************)
(* Properties of the sessions (Spec)                                       *)
(***************************************************************************)
\* C1: within one session, once a fetch of the file metadata has succeeded
\* no lister call sends another request (the requests sent on the session's
\* cache end with the first one answered), every later lister call returns
\* without error the very sequence the first successful call returned, and
\* that sequence is what the cache holds.
C1_ListersServedFromCache ==
    /\ fetches.okAt # 0 => fetches.n = fetches.okAt
    /\ first.set <=> fetches.okAt # 0
    /\ (first.set /\ last.listed.called) =>
          (last.listed.err = "" /\ last.listed.entries = first.entries)
    /\ first.set => (f.cache.found /\ f.cache.files = first.entries)

\* C1, its case: List or NewObject is served from the cache, with no
\* request, after a fetch that returned entries.
C1_CacheHit ==
    /\ phase = "ready"
    /\ fetches.okAt # 0
    /\ last.op \in {"List", "NewObject"}
    /\ last.listed.called
    /\ last.reqs = <<>>
    /\ first.entries # <<>>

\* C2: every step that is one of the write-style operations (Mkdir, Rmdir,
\* Put, PutStream, Remove, Update, SetModTime), in any session state and for
\* any argument, returns errorReadOnly, sends no request and leaves the Fs
\* (provider, endpoint, root, options, cache) as it was.
C2_WritesAreRefused ==
    [][last'.op \in {"Mkdir", "Rmdir", "Put", "PutStream", "Remove", "Update", "SetModTime"}
          => /\ last'.err = errorReadOnly
             /\ last'.reqs = <<>>
             /\ f' = f
             /\ phase' = phase]_vars

\* C2, its case: a write-style operation was refused on a session whose
\* cache is populated.
C2_WriteRefused ==
    /\ last.op \in {"Mkdir", "Rmdir", "Put", "PutStream", "Remove", "Update", "SetModTime"}
    /\ last.err = errorReadOnly
    /\ f.cache.found
    /\ f.cache.files # <<>>

\* the entry of remote remote lies under the root
UnderRoot(root, remote) == root = "" \/ HasPrefix(remote, root \o "/")

\* its remote relative to the root
RelativeTo(root, remote) ==
    IF root = "" THEN remote ELSE SubSeq(remote, Len(root) + 2, Len(remote))

\* the entries of the sequence entries whose parent directory, relative to
\* the root, is dir, in their order and each under its relative remote
FilesOf(root, dir, entries) ==
    [i \in 1..Len(SelectSeq(entries, LAMBDA e :
                    UnderRoot(root, e.remote) /\ SplitPath(RelativeTo(root, e.remote)) = dir)) |->
        [SelectSeq(entries, LAMBDA e :
            UnderRoot(root, e.remote) /\ SplitPath(RelativeTo(root, e.remote)) = dir)[i]
         EXCEPT !.remote = RelativeTo(root, @)]]

\* the remotes of a sequence of entries
RemotesOf(entries) == [i \in 1..Len(entries) |-> entries[i].remote]

\* C4: a successful List(D) of a Dataverse session returns as files exactly
\* the cached entries whose parent directory relative to the root is D, each
\* once and in order, and as directories one entry per key of dirPaths, no
\* name twice, each with the zero time; for the dataset with the labels "",
\* "sub", "sub" the root lists a.txt and the directory sub, and "sub" lists
\* its two files and no directory.
C4_DataverseListing ==
    (last.op = "List" /\ f.provider = Dataverse /\ last.listed.called /\ last.err = "") =>
        /\ last.files = FilesOf(f.root, last.arg, f.cache.files)
        /\ \A i, j \in 1..Len(last.dirs) : last.dirs[i].remote = last.dirs[j].remote => i = j
        /\ \A i \in 1..Len(last.dirs) : last.dirs[i].modTime = zeroTime
        /\ {last.dirs[i].remote : i \in 1..Len(last.dirs)}
              = {Join(last.arg, name) : name \in dirPaths(f, last.arg, f.cache.files)}
        /\ (f.endpointURL = HarvardDataset /\ f.root = "" /\ last.arg = "") =>
              /\ RemotesOf(last.files) = <<"a.txt">>
              /\ RemotesOf(last.dirs) = <<"sub">>
        /\ (f.endpointURL = HarvardDataset /\ f.root = "" /\ last.arg = "sub") =>
              /\ RemotesOf(last.files) = <<"sub/b.txt", "sub/c.csv">>
              /\ last.dirs = <<>>

\* C4, its case: the root of the dataset with the labels "", "sub", "sub"
\* is listed, one file and one directory.
C4_RootListed ==
    /\ last.op = "List"
    /\ f.provider = Dataverse
    /\ f.endpointURL = HarvardDataset
    /\ f.root = ""
    /\ last.arg = ""
    /\ last.err = ""
    /\ Len(last.files) = 1
    /\ Len(last.dirs) = 1

(***************************************************************************)
(* Properties of the resolvers (SpecResolve)                               *)
(***************************************************************************)
\* a record API's answer validates: it is a response whose links.self is
\* there and parses
Validates(result) == result.outcome = "ok" /\ result.Self # "" /\ Parse(result.Self).ok

\* the Link header names a linkset candidate
HasLinkset(links) ==
    \E i \in 1..Len(links) :
        /\ links[i].Rel = "linkset"
        /\ links[i].Type = "application/linkset+json"
        /\ Parse(links[i].Href).ok

\* the case of C3: the landing page is answered, its Link header names a
\* candidate that does not validate, and its path gives a record ID whose
\* candidate validates
GuessOnly ==
    /\ inv.called
    /\ inv.res.outcome = "ok"
    /\ HasLinkset(inv.res.Links)
    /\ ~Validates(inv.linkset)
    /\ invenioRecordRegex(Parse(inv.res.RequestURL).Path).match
    /\ Validates(inv.guess)

\* C3: when the Link-header candidate fails validation and the path-guess
\* candidate validates, resolveInvenioEndpoint returns provider invenio, the
\* links.self of the path-guess candidate's answer as endpoint and no error,
\* after the three requests.
C3_GuessAfterFailedLinkset ==
    GuessOnly =>
        /\ inv.out.err = ""
        /\ inv.out.provider = Invenio
        /\ inv.out.endpoint = Parse(inv.guess.Self)
        /\ String(inv.out.endpoint) = inv.guess.Self
        /\ Len(inv.out.reqs) = 3

\* C3, its case: the linkset candidate was refused with an empty links.self
\* and the guess accepted.
C3_GuessAccepted ==
    /\ GuessOnly
    /\ inv.linkset.outcome = "ok"
    /\ inv.linkset.Self = ""
    /\ inv.out.provider = Invenio
    /\ inv.guess.Self = OtherSelf

\* C5, as claimed: with the provider option set to dataverse or zenodo the
\* resolver selected is the one the option names, whatever the host: with
\* dataverse the result is a Dataverse endpoint, with zenodo it is never one.
C5_OverrideTakesPrecedence ==
    (conn.called /\ conn.resolved.err = "") =>
        /\ conn.opt.Provider = Dataverse => conn.out.provider = Dataverse
        /\ conn.opt.Provider = Zenodo => conn.out.provider # Dataverse

\* the host resolveEndpoint looks at
ResolvedHost == ToLower(Hostname(conn.resolved.url))

\* the answer of a landing page that says nothing in its Link header and is
\* not redirected
PlainPage == [outcome |-> "ok", Links |-> <<>>, RequestURL |-> String(conn.resolved.url)]

\* C6, as claimed: with no provider option, a host that is neither
\* dataverse.harvard.edu nor zenodo.org or a subdomain of it goes to the
\* generic Invenio discovery: where that succeeds on the record API's answer
\* the result is provider invenio with the endpoint discovered, and only
\* where it fails the error that the provider is not supported.
C6_OtherHostTriesInvenio ==
    (/\ conn.called
     /\ conn.resolved.err = ""
     /\ conn.opt.Provider = ""
     /\ ResolvedHost # "dataverse.harvard.edu"
     /\ ResolvedHost # "zenodo.org"
     /\ ~HasSuffix(ResolvedHost, ".zenodo.org")) =>
        IF resolveInvenioEndpoint(conn.resolved.url, PlainPage, conn.record, conn.record).err = ""
        THEN /\ conn.out.err = ""
             /\ conn.out.provider = Invenio
             /\ conn.out.endpoint
                  = resolveInvenioEndpoint(conn.resolved.url, PlainPage,
                                           conn.record, conn.record).endpoint
        ELSE conn.out.err = "provider '" \o Hostname(conn.resolved.url) \o "' is not supported"

\* the values of a handle answer that are URLs given as strings
URLValues(values) ==
    {i \in 1..Len(values) :
        values[i].Type = "URL" /\ values[i].Format = "string" /\ values[i].IsString}

\* C7, as claimed: resolveDoiURL returns a target URL and no error exactly
\* when the response code is 1, a value of type URL and format string is
\* there and the one selected parses; in every other case it returns an
\* error and no URL.
C7_ResolutionFails ==
    (conn.called /\ conn.handle.outcome = "ok") =>
        IF /\ conn.handle.ResponseCode = 1
           /\ URLValues(conn.handle.Values) # {}
           /\ Parse(conn.handle.Values[Last(URLValues(conn.handle.Values))].Value).ok
        THEN /\ conn.resolved.err = ""
             /\ conn.resolved.url
                  = Parse(conn.handle.Values[Last(URLValues(conn.handle.Values))].Value)
        ELSE conn.resolved.err # "" /\ ~conn.resolved.url.ok

\* the Zenodo resolver is the one resolveEndpoint selects
ZenodoSelected ==
    /\ conn.called
    /\ conn.resolved.err = ""
    /\ ResolvedHost # "dataverse.harvard.edu"
    /\ conn.opt.Provider # Dataverse
    /\ \/ ResolvedHost = "zenodo.org"
       \/ HasSuffix(ResolvedHost, ".zenodo.org")
       \/ conn.opt.Provider = Zenodo

\* C8, as claimed: when the record API answers resolveZenodoEndpoint, a
\* links.self that is empty or does not parse gives an error and neither
\* provider nor endpoint, and any other gives provider zenodo with the
\* links.self URL as endpoint.
C8_ZenodoNeedsSelf ==
    (ZenodoSelected /\ Len(conn.out.reqs) = 2 /\ conn.record.outcome = "ok") =>
        IF conn.record.Self = "" \/ ~Parse(conn.record.Self).ok
        THEN conn.out.err # "" /\ conn.out.provider = "" /\ ~conn.out.endpoint.ok
        ELSE /\ conn.out.err = ""
             /\ conn.out.provider = Zenodo
             /\ conn.out.endpoint = Parse(conn.record.Self)

\* the part of the DOI after its first "zenodo.", at the position of that
\* "zenodo."
AfterZenodo(doi, at) == SubSeq(doi, at + 7, Len(doi))

\* C9: when the DOI holds "zenodo." with a character after it, the request
\* of resolveZenodoEndpoint goes to /api/records/ followed by all of the DOI
\* after its first "zenodo." (15063252 for 10.5281/zenodo.15063252); when it
\* does not, resolveZenodoEndpoint returns the error that no endpoint can be
\* derived, having sent nothing.
C9_RecordIdFromDoi ==
    /\ zenodoRecordRegex("10.5281/zenodo.15063252") = [match |-> TRUE, id |-> "15063252"]
    /\ ZenodoSelected =>
          IF /\ Index(conn.opt.Doi, "zenodo.") # 0
             /\ Index(conn.opt.Doi, "zenodo.") + 7 <= Len(conn.opt.Doi)
          THEN /\ Len(conn.out.reqs) = 2
               /\ conn.out.reqs[2]
                    = String(ResolveReference(
                                 conn.resolved.url,
                                 "/api/records/"
                                 \o AfterZenodo(conn.opt.Doi, Index(conn.opt.Doi, "zenodo.")),
                                 ""))
          ELSE /\ conn.out.reqs = conn.resolved.reqs
               /\ conn.out.provider = ""
               /\ conn.out.err = "could not derive API endpoint URL from '"
                                 \o String(conn.resolved.url) \o "'"

\* C9, its case: a DOI that holds "zenodo." twice, resolved for Zenodo.
C9_SecondZenodo ==
    /\ ZenodoSelected
    /\ conn.opt.Doi = "doi:10.5072/zenodo.x/zenodo.7"
    /\ conn.out.provider = Zenodo
    /\ conn.out.reqs[2] = "https://zenodo.org/api/records/x/zenodo.7"

\* the persistentId of the landing page
LandingID == QueryGet(conn.resolved.url.RawQuery, "persistentId")

\* what C10 says of the endpoint but for its query
DataverseEndpointOf(url, out, reqs) ==
    /\ out.err = ""
    /\ out.reqs = reqs
    /\ out.endpoint.ok
    /\ out.endpoint.Scheme = url.Scheme
    /\ out.endpoint.Host = url.Host
    /\ out.endpoint.Path = "/api/datasets/:persistentId/"

\* C10, as claimed: resolveDataverseEndpoint sends nothing and returns
\* provider dataverse with an endpoint of the landing page's scheme and host
\* and the path /api/datasets/:persistentId/, whose query string contains
\* persistentId=V with V as it is.
C10_QueryVerbatim ==
    (conn.called /\ conn.out.provider = Dataverse) =>
        /\ DataverseEndpointOf(conn.resolved.url, conn.out, conn.resolved.reqs)
        /\ Contains(conn.out.endpoint.RawQuery, "persistentId=" \o LandingID)

\* C10, amended: the same, with the query string persistentId=V in its
\* percent-encoded form, from which V is read back
\* (persistentId=doi%3A10.7910%2FDVN%2FABC123 for V = doi:10.7910/DVN/ABC123).
C10_QueryEncoded ==
    (conn.called /\ conn.out.provider = Dataverse) =>
        /\ DataverseEndpointOf(conn.resolved.url, conn.out, conn.resolved.reqs)
        /\ conn.out.endpoint.RawQuery = "persistentId=" \o QueryEscape(LandingID)
        /\ QueryGet(conn.out.endpoint.RawQuery, "persistentId") = LandingID
        /\ LandingID = "doi:10.7910/DVN/ABC123" =>
              conn.out.endpoint.RawQuery = "persistentId=doi%3A10.7910%2FDVN%2FABC123"

\* C10, its case: the landing page of doi:10.7910/DVN/ABC123.
C10_HarvardEndpoint ==
    /\ conn.called
    /\ conn.out.provider = Dataverse
    /\ LandingID = "doi:10.7910/DVN/ABC123"
    /\ String(conn.out.endpoint) = HarvardDataset

\* the entries of the record's files API whose key is that of the Object o
FilesOfObject(o) ==
    {RecordFiles(invenioFilesRequest(f))[i] :
        i \in {j \in 1..Len(RecordFiles(invenioFilesRequest(f))) :
                  RecordFiles(invenioFilesRequest(f))[j].Key = o.remote}}

\* C11: on a Zenodo/Invenio session, Hash with MD5 of an entry whose
\* checksum is "md5:" followed by a digest h returns exactly h: the prefix
\* "md5:" is removed and no character of the digest.
C11_DigestKept ==
    (last.op = "Hash" /\ last.err = "" /\ f.provider = Zenodo) =>
        \A file \in FilesOfObject(last.files[1]) :
            HasPrefix(file.Checksum, "md5:") => "md5:" \o last.out = file.Checksum

\* the time a timestamp of a provider stands for: its own when it is an
\* RFC3339 timestamp, the unset time (Unix epoch zero) otherwise
TimeOrUnset(stamp) == IF ParseRFC3339(stamp).ok THEN stamp ELSE "1970-01-01T00:00:00Z"

\* C12: a timestamp that is absent or does not parse never fails a listing.
\* Whenever a lister returns without error, it returns one entry for every
\* file of the provider's answer; on Zenodo/Invenio each entry has the time
\* of its own "updated" field or, when that is not RFC3339, the unset time;
\* on Dataverse every entry has the time of latestVersion.lastUpdateTime or,
\* when that is not RFC3339, the unset time; and a successful List of the
\* root of a Zenodo/Invenio session returns every entry.
C12_TimestampsNeverFail ==
    /\ (last.listed.called /\ last.listed.err = "" /\ f.provider = Zenodo) =>
          /\ Len(last.listed.entries) = Len(RecordFiles(invenioFilesRequest(f)))
          /\ \A i \in 1..Len(last.listed.entries) :
                last.listed.entries[i].modTime
                    = TimeOrUnset(RecordFiles(invenioFilesRequest(f))[i].Updated)
    /\ (last.listed.called /\ last.listed.err = "" /\ f.provider = Dataverse) =>
          /\ Len(last.listed.entries) = Len(DataverseVersion(dataverseFilesRequest(f)).Files)
          /\ \A i \in 1..Len(last.listed.entries) :
                last.listed.entries[i].modTime
                    = TimeOrUnset(DataverseVersion(dataverseFilesRequest(f)).LastUpdateTime)
    /\ (last.op = "List" /\ last.err = "" /\ f.provider = Zenodo) =>
          Len(last.files) = Len(RecordFiles(invenioFilesRequest(f)))

\* C12, its case: a Zenodo listing returned an entry with the unset time
\* next to an entry that keeps its parsed time.
C12_MixedTimes ==
    /\ last.op = "List"
    /\ last.err = ""
    /\ f.provider = Zenodo
    /\ \E i, j \in 1..Len(last.files) :
          /\ last.files[i].modTime = "1970-01-01T00:00:00Z"
          /\ ~ParseRFC3339(RecordFiles(invenioFilesRequest(f))[i].Updated).ok
          /\ last.files[j].modTime = "2024-01-02T03:04:05Z"

(***************************************************************************)
(* Properties of the functions applied on their own (SpecResolve)          *)
(***************************************************************************)
\* C13: parseDoi is idempotent and sends the forms of a DOI to one string.
\* Every application of parseDoi to a DOI in bare form, in the form
\* "doi:<DOI>" or as a URL of doi.org or dx.doi.org returns the bare DOI, and
\* every application of parseDoi to what parseDoi returned returns its
\* argument.
C13_ParseDoiIdempotent ==
    [][app'.fn = "parseDoi" =>
          /\ \A d \in BareDois : app'.arg \in DoiForms(d) => app'.out = d
          /\ (app.fn = "parseDoi" /\ app'.arg = app.out) =>
                (app'.before = app.arg /\ app'.out = app'.arg)]_vars

\* C13, its case: parseDoi was applied to the DOI it had returned for a URL
\* of dx.doi.org or for the form with the scheme doi.
C13_AppliedTwice ==
    /\ app.fn = "parseDoi"
    /\ app.before \in {"https://dx.doi.org/10.1000/doi:5", "doi:10.1000/doi:5"}
    /\ app.arg = "10.1000/doi:5"
    /\ app.out = "10.1000/doi:5"

(***************************************************************************)
(* Properties of the sessions, continued (Spec)                            *)
(***************************************************************************)
\* C14: the provider and the endpoint of a session change through the "set"
\* command only.  Every step that is not NewFs or "set" (List, NewObject,
\* Open, Hash, the write-style operations, show-metadata) leaves f.provider
\* and f.endpoint as they were, and after every "set" that returns without
\* error f.provider and f.endpoint are together the result of one
\* resolveEndpoint with the updated options f.opt.
C14_BoundUntilSet ==
    [][/\ last'.op \notin {"NewFs", "set"} =>
            (f'.provider = f.provider /\ f'.endpoint = f.endpoint)
       /\ (last'.op = "set" /\ last'.err = "" /\ phase' = "ready" /\ last' # last) =>
            \E a \in SessionAnswers :
                /\ resolveEndpoint(f'.opt, a.handle, a.record).err = ""
                /\ f'.provider = resolveEndpoint(f'.opt, a.handle, a.record).provider
                /\ f'.endpoint = resolveEndpoint(f'.opt, a.handle, a.record).endpoint]_vars

\* C14, its case: a "set" of the provider has rebound a session made for a
\* Zenodo DOI to Dataverse, with an endpoint on zenodo.org.
C14_Rebound ==
    /\ phase = "ready"
    /\ last.op = "set"
    /\ last.err = ""
    /\ f.opt = [Doi |-> "10.5281/zenodo.15063252", Provider |-> Dataverse]
    /\ f.provider = Dataverse
    /\ Hostname(f.endpoint) = "zenodo.org"

\* C15: the entries a file lister returns have pairwise distinct remotes,
\* whatever the provider answers; on Dataverse two files that come to the
\* same joined path give no two entries with that remote.
C15_RemotesDistinct ==
    (last.listed.called /\ last.listed.err = "") =>
        \A i, j \in 1..Len(last.listed.entries) :
            i # j => last.listed.entries[i].remote # last.listed.entries[j].remote

\* the URL of the text s has a scheme and a host
Absolute(s) == Parse(s).ok /\ Parse(s).Scheme # "" /\ Parse(s).Host # ""

\* C16: every entry a file lister returns has an absolute content URL; on
\* Dataverse it is /api/access/datafile/<fileId>?format=original on the
\* scheme and host of the endpoint, and on Zenodo/Invenio no entry has an
\* empty or relative content URL, whatever links.content holds.
C16_ContentURLAbsolute ==
    (last.listed.called /\ last.listed.err = "") =>
        /\ \A i \in 1..Len(last.listed.entries) : Absolute(last.listed.entries[i].contentURL)
        /\ f.provider = Dataverse =>
              \A i \in 1..Len(last.listed.entries) :
                  last.listed.entries[i].contentURL
                      = f.endpoint.Scheme \o "://" \o f.endpoint.Host
                        \o "/api/access/datafile/"
                        \o Itoa(DataverseVersion(dataverseFilesRequest(f)).Files[i].ID)
                        \o "?format=original"

(***************************************************************************)
(* Properties of concurrent lister calls (SpecConc)                        *)
(***************************************************************************)
\* what one lister call alone returns on the session when its cache is empty
\* and its request is answered
FetchResult ==
    IF f.provider = Dataverse
    THEN listDataverseDoiFiles([f EXCEPT !.cache = NewCache],
                               DataverseFilesResult(f, "ok")).entries
    ELSE listInvevioDoiFiles([f EXCEPT !.cache = NewCache], InvenioFilesResult(f, "ok")).entries

\* C17: under every interleaving of the lister calls of several processes
\* on one session, every call that returns without error returns the
\* complete entries of a fetch, and the value of the cache key "files" is at
\* every moment absent or the complete entries of a fetch, never a part or a
\* mixture; a fetch may be sent twice.
C17_ConcurrentListers ==
    /\ \A p \in Procs :
          (phase = "ready" /\ calls[p].pc = "done" /\ calls[p].err = "") =>
              calls[p].entries = FetchResult
    /\ f.cache.found => f.cache.files = FetchResult

\* C17, its case: two calls that both found the cache empty have both sent
\* the request, both stored their entries and both returned them.
C17_DuplicateFetch ==
    /\ phase = "ready"
    /\ \A p \in Procs :
          /\ calls[p].pc = "done"
          /\ calls[p].err = ""
          /\ calls[p].reqs # <<>>
          /\ Len(calls[p].entries) > 1
    /\ f.cache.found

(***************************************************************************)
(* Properties of the errors of the operations (Spec)                       *)
(***************************************************************************)
\* C18: a List whose listing request is answered 404 returns
\* ErrorDirNotFound and an Open whose request is answered 404 returns
\* ErrorObjectNotFound; with any other failure of the request each returns
\* an error that begins with the name of the failing operation.
C18_NotFoundSentinels ==
    [][/\ \A dir \in Dirs :
            (List(dir, "404") /\ last'.reqs # <<>>) => last'.err = ErrorDirNotFound
       /\ \A o \in Objects : Open(o, "404") => last'.err = ErrorObjectNotFound
       /\ \A dir \in Dirs, outcome \in {"500", "transport"} :
            (List(dir, outcome) /\ last'.reqs # <<>>) =>
                last'.err = "error listing: readDir failed: " \o CallError(outcome)
       /\ \A o \in Objects, outcome \in {"500", "transport"} :
            Open(o, outcome) => last'.err = "Open failed: " \o CallError(outcome)]_vars

\* dir, a path below the root of the Fs, is a directory of the dataset: the
\* root itself or a proper ancestor of the remote of a listed file
DirExists(dir, fileEntries) ==
    \/ Join(f.root, dir) = ""
    \/ \E i \in 1..Len(fileEntries) :
          HasPrefix(fileEntries[i].remote, Join(f.root, dir) \o "/")

\* C19: List of a directory that the dataset does not have returns
\* ErrorDirNotFound: on a Zenodo session for every dir but "", on a Dataverse
\* session for every dir that is neither the root nor an ancestor of a file;
\* such a dir is never returned as an empty directory.
C19_MissingDirNotFound ==
    (phase = "ready" /\ last.op = "List") =>
        /\ (f.provider = Zenodo /\ last.arg # "") => last.err = ErrorDirNotFound
        /\ (/\ f.provider = Dataverse
            /\ last.listed.called
            /\ last.listed.err = ""
            /\ ~DirExists(last.arg, last.listed.entries)) => last.err = ErrorDirNotFound

(***************************************************************************)
(* Properties of the Link header parser (SpecResolve)                      *)
(***************************************************************************)
\* C20: parseLinkHeader of a header with the one link
\* <URL> ; rel="linkset" ; type="application/linkset+json" gives one
\* headerLink whose Href is the URL without the angle brackets, whose Rel is
\* linkset and whose Type is application/linkset+json, both without their
\* quotes, and whose Extras is an empty map; in no headerLink of any header
\* does Extras hold rel or type.
C20_LinksetHeaderParsed ==
    app.fn = "parseLinkHeader" =>
        /\ \A url \in LinkURLs :
              app.arg = LinksetHeader(url) =>
                  app.links = <<[Href |-> url, Rel |-> "linkset",
                                 Type |-> "application/linkset+json",
                                 Extras |-> [n \in {} |-> ""]]>>
        /\ \A i \in 1..Len(app.links) :
              DOMAIN app.links[i].Extras \cap {"rel", "type"} = {}

\* C20, its case: the header of TestParseLinkHeader was parsed into one link.
C20_TestHeaderParsed ==
    /\ app.fn = "parseLinkHeader"
    /\ app.arg = LinksetHeader("https://zenodo.org/api/records/15063252")
    /\ Len(app.links) = 1
    /\ app.links[1].Rel = "linkset"

(***************************************************************************)
(* Properties of the Invenio discovery (SpecResolve)                       *)
(***************************************************************************)
\* link i of the Link header is a linkset candidate
Qualifies(links, i) ==
    /\ links[i].Rel = "linkset"
    /\ links[i].Type = "application/linkset+json"
    /\ Parse(links[i].Href).ok

\* the href of the first linkset candidate of a Link header that names one
FirstCandidate(links) ==
    links[CHOOSE i \in 1..Len(links) :
              Qualifies(links, i) /\ \A j \in 1..(i - 1) : ~Qualifies(links, j)].Href

\* C21: the two strategies of resolveInvenioEndpoint run in a fixed order.
\* The first linkset candidate of the Link header is requested right after
\* the landing page; when it validates, the result is its links.self and no
\* request is sent for the guessed URL; a third request, for the guessed
\* URL, is sent only after a linkset candidate failed validation, and with
\* no linkset candidate the guessed URL is the only request after the page.
C21_StrategiesInOrder ==
    (inv.called /\ inv.res.outcome = "ok") =>
        /\ inv.out.reqs[1] = inv.resolvedURL
        /\ HasLinkset(inv.res.Links) =>
              /\ Len(inv.out.reqs) >= 2
              /\ inv.out.reqs[2] = String(Parse(FirstCandidate(inv.res.Links)))
        /\ (HasLinkset(inv.res.Links) /\ Validates(inv.linkset)) =>
              /\ inv.out.err = ""
              /\ inv.out.provider = Invenio
              /\ inv.out.endpoint = Parse(inv.linkset.Self)
              /\ Len(inv.out.reqs) = 2
        /\ Len(inv.out.reqs) = 3 =>
              /\ HasLinkset(inv.res.Links)
              /\ ~Validates(inv.linkset)
              /\ invenioRecordRegex(Parse(inv.res.RequestURL).Path).match
        /\ ~HasLinkset(inv.res.Links) =>
              Len(inv.out.reqs) =
                  IF invenioRecordRegex(Parse(inv.res.RequestURL).Path).match THEN 2 ELSE 1

\* C21, its case: both candidates would validate, with different
\* links.self, and the linkset candidate's was returned after two requests.
C21_LinksetWins ==
    /\ inv.called
    /\ inv.res.outcome = "ok"
    /\ HasLinkset(inv.res.Links)
    /\ Validates(inv.linkset)
    /\ invenioRecordRegex(Parse(inv.res.RequestURL).Path).match
    /\ Validates(inv.guess)
    /\ inv.guess.Self # inv.linkset.Self
    /\ inv.out.endpoint = Parse(inv.linkset.Self)
    /\ Len(inv.out.reqs) = 2

\* one of the two candidates of the answered landing page validates
SomeCandidateValidates ==
    \/ HasLinkset(inv.res.Links) /\ Validates(inv.linkset)
    \/ invenioRecordRegex(Parse(inv.res.RequestURL).Path).match /\ Validates(inv.guess)

\* C22: once the landing page is answered, resolveInvenioEndpoint succeeds
\* exactly when the candidate of one of its strategies validates; when the
\* Link header names no candidate or its candidate fails validation, and the
\* path of the request gives no record ID or the guessed URL fails
\* validation, it returns the error that the Invenio API endpoint could not
\* be resolved, with the empty provider and a nil endpoint.
C22_ResolvedIffValidated ==
    (inv.called /\ inv.res.outcome = "ok") =>
        /\ inv.out.err = "" <=> SomeCandidateValidates
        /\ SomeCandidateValidates =>
              /\ inv.out.provider = Invenio
              /\ inv.out.endpoint.ok
        /\ ~SomeCandidateValidates =>
              /\ inv.out.err = "could not resolve the Invenio API endpoint for '"
                               \o inv.resolvedURL \o "'"
              /\ inv.out.provider = ""
              /\ inv.out.endpoint = NoURL

\* C22, its case: both candidates were requested, neither validated, and the
\* resolution failed.
C22_BothFailed ==
    /\ inv.called
    /\ inv.res.outcome = "ok"
    /\ HasLinkset(inv.res.Links)
    /\ inv.linkset = Record("")
    /\ invenioRecordRegex(Parse(inv.res.RequestURL).Path).match
    /\ inv.guess = NoRecord("404")
    /\ Len(inv.out.reqs) = 3
    /\ inv.out.err # ""
    /\ inv.out.provider = ""

(***************************************************************************)
(* Properties of the directories of a Dataverse dataset (Spec)             *)
(***************************************************************************)
\* the path of the directory parent below the directory full, "" when
\* parent is not below full
Below(full, parent) ==
    IF full = "" THEN parent
    ELSE IF HasPrefix(parent, full \o "/") THEN TrimPrefix(parent, full \o "/")
    ELSE ""

\* the directory parent is a direct child of the directory full
ChildOf(full, parent) == Below(full, parent) # "" /\ ~Contains(Below(full, parent), "/")

\* a List of a Dataverse session returned entries
DataverseListed ==
    /\ phase = "ready"
    /\ last.op = "List"
    /\ f.provider = Dataverse
    /\ last.listed.called
    /\ last.err = ""

\* C23: a successful List(D) of a Dataverse session returns, for every
\* entry whose parent directory is a direct child of D, a directory result
\* for that child, whatever D is; with a file at sub/x/f3.txt, List("sub")
\* returns the directory sub/x.
C23_DirsAtEveryDepth ==
    DataverseListed =>
        \A i \in 1..Len(last.listed.entries) :
            ChildOf(Join(f.root, last.arg), SplitPath(last.listed.entries[i].remote)) =>
                \E j \in 1..Len(last.dirs) :
                    last.dirs[j].remote
                        = Join(last.arg, Below(Join(f.root, last.arg),
                                               SplitPath(last.listed.entries[i].remote)))

\* the directory full holds a file of the dataset, directly or below it
HoldsFile(full, fileEntries) ==
    \E i \in 1..Len(fileEntries) :
        \/ SplitPath(fileEntries[i].remote) = full
        \/ HasPrefix(SplitPath(fileEntries[i].remote), full \o "/")

\* C24: every directory result of a successful List(D) of a Dataverse
\* session names a directory of the dataset: joined with the root of the
\* session it is the parent or an ancestor directory of a file, and it is a
\* direct child of D; files under subdir give no directory inside sub.
C24_DirsExist ==
    DataverseListed =>
        \A j \in 1..Len(last.dirs) :
            /\ HoldsFile(Join(f.root, last.dirs[j].remote), last.listed.entries)
            /\ ChildOf(Join(f.root, last.arg), Join(f.root, last.dirs[j].remote))

\* the first element of a path that is not empty
FirstElement(p) == IF Index(p, "/") = 0 THEN p ELSE SubSeq(p, 1, Index(p, "/") - 1)

\* C25: every file of a Dataverse dataset is reached by listing from the
\* root down: a successful List(D) returns every file whose parent directory
\* is D, and for every file below D the directory of D that leads to it, also
\* when that directory holds no file itself; with the file a/b/c.txt the
\* root lists the directory a.
C25_FilesReachable ==
    DataverseListed =>
        \A i \in 1..Len(last.listed.entries) :
            /\ SplitPath(last.listed.entries[i].remote) = Join(f.root, last.arg) =>
                  \E k \in 1..Len(last.files) :
                      /\ Join(f.root, last.files[k].remote) = last.listed.entries[i].remote
                      /\ last.files[k].contentURL = last.listed.entries[i].contentURL
            /\ Below(Join(f.root, last.arg), SplitPath(last.listed.entries[i].remote)) # "" =>
                  \E j \in 1..Len(last.dirs) :
                      last.dirs[j].remote
                          = Join(last.arg,
                                 FirstElement(Below(Join(f.root, last.arg),
                                                    SplitPath(last.listed.entries[i].remote))))

(***************************************************************************)
(* Properties of List and NewObject together (Spec)                        *)
(***************************************************************************)
\* the remotes that the listings of the session return as files when the
\* listers return entries: all of them on a Zenodo session, each under its
\* remote relative to the root, in the listing of its directory, on a
\* Dataverse session
ListedRemotes(entries) ==
    IF f.provider = Dataverse
    THEN UNION {{fileResults(f, dir, entries)[k].remote :
                    k \in 1..Len(fileResults(f, dir, entries))} :
                dir \in {SplitPath(entries[i].remote) : i \in 1..Len(entries)}
                        \cup {SplitPath(RelativeTo(f.root, entries[i].remote)) :
                                 i \in 1..Len(entries)}}
    ELSE {entries[i].remote : i \in 1..Len(entries)}

\* NewObject(remote) found the Object o: what its loop over entries returns
Finds(entries, o) ==
    /\ findRemote(entries, o.remote) # <<>>
    /\ findRemote(entries, o.remote)[1].remote = o.remote
    /\ findRemote(entries, o.remote)[1].contentURL = o.contentURL
    /\ findRemote(entries, o.remote)[1].size = o.size
    /\ findRemote(entries, o.remote)[1].md5 = o.md5

\* C26: List and NewObject agree on names.  For every file a successful
\* List returns, NewObject of its Remote() on the same session finds an
\* Object of the same remote, content URL, size and checksum; and a
\* NewObject that finds an Object was given a remote that a listing returns
\* as a file, every other remote giving ErrorObjectNotFound.
C26_ListAndNewObjectAgree ==
    /\ (phase = "ready" /\ last.op = "List" /\ last.listed.called /\ last.err = "") =>
          \A k \in 1..Len(last.files) : Finds(last.listed.entries, last.files[k])
    /\ (/\ phase = "ready"
        /\ last.op = "NewObject"
        /\ last.listed.called
        /\ last.listed.err = ""
        /\ last.arg \notin ListedRemotes(last.listed.entries)) =>
          last.err = ErrorObjectNotFound

(***************************************************************************)
(* Properties of the "set" command (Spec)                                  *)
(***************************************************************************)
\* C27: a "set" that returns an error leaves the session as it was: the
\* options, the provider, the endpoint, the root of the REST client and the
\* cache of the Fs are after the call what they were before it, at whatever
\* stage the error arose.
C27_FailedSetKeepsSession ==
    [][(last'.op = "set" /\ last'.err # "") =>
          /\ f'.opt = f.opt
          /\ f'.provider = f.provider
          /\ f'.endpoint = f.endpoint
          /\ f'.endpointURL = f.endpointURL
          /\ f'.srv = f.srv
          /\ f'.cache = f.cache]_vars

(***************************************************************************)
(* Properties of "set" among lister calls (SpecSet)                        *)
(***************************************************************************)
\* C28: once a "set" has returned without error, the cache of the session
\* holds no entries of the endpoint the session had before, and a lister
\* call that begins after it returns none: what the cache holds, and what a
\* call that finds the cache set returns, are the entries of a fetch from
\* the endpoint the session has now, whatever lister calls were under way
\* when "set" ran.
C28_NoEntriesOfOldEndpoint ==
    [][(phase = "ready" /\ last.op = "set" /\ last.err = "") =>
          /\ f.cache.found => f.cache.files = FetchResult
          /\ \A p \in Procs :
                (calls[p].pc = "idle" /\ calls'[p].pc = "done" /\ calls'[p].err = "") =>
                    calls'[p].entries = FetchResult]_vars

(***************************************************************************)
(* Properties of failed requests (Spec)                                    *)
(***************************************************************************)
\* C29: a request of the Dataverse file lister or of Open that fails
\* without a response is returned as an error and the operation does not
\* panic: List returns the wrapped error of listDataverseDoiFiles and Open
\* its own wrapped error.
C29_NoResponseIsAnError ==
    [][/\ \A dir \in Dirs :
            (f.provider = Dataverse /\ ~f.cache.found /\ List(dir, "transport")) =>
                /\ phase' = "ready"
                /\ last'.err = "error listing: readDir failed: " \o CallError("transport")
       /\ \A o \in Objects :
            Open(o, "transport") =>
                /\ phase' = "ready"
                /\ last'.err = "Open failed: " \o CallError("transport")]_vars

====
